---- MODULE Spec2Model ----
(***************************************************************************)
(* A model of the multimodal RAG backend: the upload pipeline              *)
(* (api/v1/upload.py), the summarisation batches and their circuit breaker *)
(* (services/summary_service.py), the document repository                  *)
(* (repositories/document_repo.py), document removal (api/v1/documents.py) *)
(* and the rate-limit retry wrapper (utils/rate_limit.py) as used by the   *)
(* non-streaming chat call (services/rag_service.py).                      *)
(*                                                                         *)
(* Strings are modelled by the classes the code distinguishes:             *)
(*   - a parent's text by its stripped length: "empty", "short" (1..19     *)
(*     characters) or "long" (20 or more);                                 *)
(*   - a provider reply by its stripped length: "empty", "tiny" (1..9),    *)
(*     "mid" (10..19) or "long" (20 or more);                              *)
(*   - a summary by how it was produced and how long it is.                *)
(* Times are in milliseconds.                                              *)
(***************************************************************************)
EXTENDS Integers, Sequences, FiniteSets, TLC

VARIABLES
    documents,             \* documents table: doc id -> row, or NoDoc
    pc,                    \* position of each document's background task
    file,                  \* what the partitioner extracts from the uploaded PDF
    parents,               \* process_pdf's result held by the task
    idx,                   \* loop index of the running batch
    attempt,               \* loop variable of the running retry loop
    last_error,            \* last_error of the running retry loop
    total_wait,            \* the wait being slept, in ms (0: not sleeping)
    summary,               \* the value _summarize_one / _summ_img just returned
    image_summaries,       \* summarize_images' results list
    text_table_summaries,  \* summarize_texts_and_tables' results list
    inflight,              \* provider calls started and not yet returned
    provider,              \* what the generation provider may answer, per document
    faults,                \* store failures (database, disk, vector store) still to come
    indexed,               \* documents with vectors and a parents index in the stores
    hist,                  \* per document: what the run has done so far (history)
    chat,                  \* one non-streaming chat request (rag_service._chat_via_gemini)
    stream,                \* one streaming chat request (chat.py event_generator)
    parent_index,          \* parents_index/<doc_id>.json: parent id -> parent, per document
    vectors,               \* the child records of the vector store
    uuids,                 \* how many parent ids uuid4 has generated
    probe,                 \* an error handed to the classifiers of rate_limit.py, and their answers
    chroma,                \* failures of the vector store and the index files still to come
    bundle                 \* one call of retrieve_with_sources: its arguments and its result

vars == <<documents, pc, file, parents, idx, attempt, last_error, total_wait,
          summary, image_summaries, text_table_summaries, inflight, provider,
          faults, indexed, hist, chat, stream, parent_index, vectors, uuids, probe,
          chroma, bundle>>

----------------------------------------------------------------------------
(* Bounds of the model *)

\* documents uploaded concurrently are d1 and d2
Docs == {"d1", "d2"}

\* most images of an uploaded file
MaxImages == 1
\* most text/table elements of an uploaded file
MaxTexts == 1
\* most text/table elements of a file in the circuit-breaker runs
MaxBreakerItems == 11
\* most store failures injected into one run
MaxFaults == 1
\* most content chunks of one generation attempt of a streaming chat
MaxChunks == 1
\* most phrases of the text of an error handed to the classifiers
MaxPhrases == 2
\* most links from an error handed to the classifiers to the innermost one
MaxLinks == 2
\* most images and text elements of a file of the progress runs
MaxProgressImages == 19
MaxProgressTexts == 6
\* entries of a parent map saved before the indexing call
MaxPrior == 2
MaxAlignImages == 2
MaxHits == 3
MaxK == 2
MaxStoreFaults == 1

----------------------------------------------------------------------------
(* Program constants *)

\* summary_service.py: PROGRESS_START, PROGRESS_END
PROGRESS_START == 10
PROGRESS_END == 80
\* summary_service.py: max_retries of _summarize_one_internal and _summ_img_internal
SummaryMaxRetries == 3
\* summary_service.py: base of the backoff without a hint, 60.0 s
SummaryBackoffMs == 60000
\* rag_service.py: @with_rate_limit_retry(max_retries=3, default_wait=60.0)
ChatMaxRetries == 3
ChatDefaultWaitMs == 60000
\* chat.py event_generator: max_retries = 3 and the base of its backoff, 60.0 s
StreamMaxRetries == 3
StreamDefaultWaitMs == 60000
\* the wait a provider's hint names in this model ("retry in 5s")
HintMs == 5000

NoDoc == [status |-> "absent", progress |-> 0]
NoError == [rate |-> FALSE, hint |-> FALSE, key |-> FALSE, none |-> TRUE]

----------------------------------------------------------------------------
(* Errors of the provider, by what the code's classifiers say of them *)

\* rate: is_rate_limit_error(e); hint: extract_wait_seconds_from_error(e) finds a
\* wait; key: the is_api_key_error test of _summarize_one / _summ_img holds
\* (the text names the API key, or the type is ChatGoogleGenerativeAIError)
Err(rate, hint, key) == [rate |-> rate, hint |-> hint, key |-> key, none |-> FALSE]

ErrRateHint == Err(TRUE, TRUE, FALSE)
ErrRateNoHint == Err(TRUE, FALSE, FALSE)
ErrApiKey == Err(FALSE, FALSE, TRUE)
ErrOther == Err(FALSE, FALSE, FALSE)
\* a rate-limit error raised as ChatGoogleGenerativeAIError
ErrRateTyped == Err(TRUE, FALSE, TRUE)

Errors == {ErrRateHint, ErrRateNoHint, ErrApiKey, ErrOther, ErrRateTyped}

Replies == {"empty", "tiny", "mid", "long"}

\* an answer of the provider to one call
Ok(reply) == [ok |-> TRUE, reply |-> reply, error |-> NoError]
Fail(e) == [ok |-> FALSE, reply |-> "empty", error |-> e]
Answers == {Ok(r) : r \in Replies} \cup {Fail(e) : e \in Errors}

IsRateLimitError(e) == e.rate

\* the wait extracted from the error, 0 for None
ExtractWaitSecondsFromError(e) == IF e.hint THEN HintMs ELSE 0

----------------------------------------------------------------------------
(* Summaries *)

\* the truncated original text that stands in for a summary:
\* element[:200] + "..." if len(element) > 200 else element
Fallback(element) == IF element = "long" THEN "fallback_long" ELSE "fallback_short"

IsFallback(s) == s \in {"fallback_long", "fallback_short"}

\* not summary
IsEmptySummary(s) == s = ""

\* len(summary.strip()) < 20
LenBelow20(s) == s \in {"", "tiny", "mid", "fallback_short"}

\* summary.startswith("[ERROR]")
StartsWithError(s) == s = "[ERROR]"

\* what _summarize_one returns for the provider's reply: the stripped reply, or
\* the fallback when it is empty or shorter than 10 characters
SummarizeOneResult(reply, element) ==
    IF reply \in {"empty", "tiny"} THEN Fallback(element) ELSE reply

\* what _summarize_one returns when _summarize_one_internal raised e
SummarizeOneOnError(e, element) ==
    IF e.key THEN "" ELSE Fallback(element)

\* what _summ_img_internal returns for the provider's reply (stripped)
SummImgResult(reply) == IF reply = "empty" THEN "" ELSE reply

\* what _summ_img returns when _summ_img_internal raised: an "[ERROR] ..." text
SummImgOnError(e) == "[ERROR]"

\* images_b64 = [img.get("b64") for img in images if img.get("b64")]
RECURSIVE ImagesB64(_)
ImagesB64(images) ==
    IF images = <<>> THEN <<>>
    ELSE (IF Head(images) = "b64" THEN <<Head(images)>> ELSE <<>>)
         \o ImagesB64(Tail(images))

\* text_and_tables = parents.get("texts", []) + parents.get("tables", [])
TextAndTables(p) == p.texts \o p.tables

----------------------------------------------------------------------------
(* Progress arithmetic of build_summaries and of the two batches *)

\* images_end_progress
ImagesEndProgress(images_count, total_chunks) ==
    IF images_count > 0
    THEN PROGRESS_START + ((PROGRESS_END - PROGRESS_START) * images_count) \div total_chunks
    ELSE PROGRESS_START

\* The batches compute int(start + (idx + 1) * progress_per_chunk) in IEEE-754
\* doubles, where progress_per_chunk = (end - start) / N is rounded. For these
\* <<start, end, N, idx>> (all there are with N <= 40 and start = 10 or
\* end = 80) the product falls just short of the exact integer and int()
\* truncates to one less than the exact floor.
FloatShortfall ==
    { <<10, 49, 37, 36>>, <<10, 53, 37, 36>>, <<10, 55, 39, 38>>,
      <<10, 57, 35, 34>>, <<10, 59, 11, 10>>, <<10, 59, 22, 21>>,
      <<10, 61, 21, 20>>, <<10, 62, 23, 22>>, <<10, 63, 19, 18>>,
      <<10, 63, 38, 37>>, <<10, 78, 28, 20>>, <<12, 80, 28, 20>> }

\* current_progress = int(start_progress + (idx + 1) * progress_per_chunk)
CurrentProgress(start, end, n, i) ==
    start + ((i + 1) * (end - start)) \div n
          - (IF <<start, end, n, i>> \in FloatShortfall THEN 1 ELSE 0)

Min(a, b) == IF a <= b THEN a ELSE b

\* for comparison: the progress of item i without the division by n and
\* without the cap at `end`
ReportedProgressUnscaled(start, end, n, i) == start + (i + 1) * (end - start)

\* the value handed to progress_callback after item i (0-based) of n
ReportedProgress(start, end, n, i) == Min(CurrentProgress(start, end, n, i), end)

----------------------------------------------------------------------------
(* The circuit breaker of build_summaries *)

\* for comparison: a breaker that counts every fallback as a failure
FailedTextSummaryOrFallback(s) ==
    IsEmptySummary(s) \/ LenBelow20(s) \/ StartsWithError(s) \/ IsFallback(s)

FailedTextSummary(s) == IsEmptySummary(s) \/ LenBelow20(s) \/ StartsWithError(s)

FailedImageSummary(s) == IsEmptySummary(s) \/ StartsWithError(s)

RECURSIVE CountFailedText(_)
CountFailedText(ss) ==
    IF ss = <<>> THEN 0
    ELSE (IF FailedTextSummary(Head(ss)) THEN 1 ELSE 0) + CountFailedText(Tail(ss))

RECURSIVE CountFailedImage(_)
CountFailedImage(ss) ==
    IF ss = <<>> THEN 0
    ELSE (IF FailedImageSummary(Head(ss)) THEN 1 ELSE 0) + CountFailedImage(Tail(ss))

FailedCount(tts, ims) == CountFailedText(tts) + CountFailedImage(ims)

\* for comparison: a breaker that also trips at exactly 90%
FailureRateAtLeast90(failed_count, total_summaries) ==
    failed_count * 10 >= 9 * total_summaries

\* failure_rate > 0.9: failed_count / total_summaries is the double nearest to
\* the quotient and 0.9 the double nearest to 9/10, so for these small counts
\* the comparison is that of the exact fractions
FailureRateAbove90(failed_count, total_summaries) ==
    failed_count * 10 > 9 * total_summaries

\* whether build_summaries raises RuntimeError("Critical summarization failure")
BreakerTrips(tts, ims) ==
    LET total_summaries == Len(tts) + Len(ims)
        failed_count == FailedCount(tts, ims)
        valid_summaries_count == total_summaries - failed_count
    IN  /\ total_summaries # 0
        /\ \/ valid_summaries_count = 0
           \/ FailureRateAbove90(failed_count, total_summaries)

----------------------------------------------------------------------------
(* The documents table *)

\* for comparison: an update that sets the status and leaves the progress
\* (progress=None)
UpdateStatusOnly(docs, d, status, progress) ==
    IF docs[d] = NoDoc THEN docs
    ELSE [docs EXCEPT ![d].status = status]

\* update_document_status: no row, no change (returns False)
UpdateDocumentStatus(docs, d, status, progress) ==
    IF docs[d] = NoDoc THEN docs
    ELSE [docs EXCEPT ![d] = [status |-> status, progress |-> progress]]

\* a store operation (summaries.json, the vector store, the parents index)
\* returns, or raises while store failures are still to come
StoreOutcomes(d) == IF faults[d] > 0 THEN {"ok", "raise"} ELSE {"ok"}

\* update_document_status returns, or raises while store failures are still to
\* come: in the query or in db.commit() ("raise", nothing written), or in
\* db.refresh(doc) after the commit ("raise_late", the row is written)
UpdateOutcomes(d) == IF faults[d] > 0 THEN {"ok", "raise", "raise_late"} ELSE {"ok"}

----------------------------------------------------------------------------
(* Waits of the retry loops *)

\* jitter_percent = random.uniform(0.1, 0.2), in percent
JitterPercents == {10, 20}

\* for comparison: a base wait that does not grow with the attempt
SummaryBackoffFlat(a) == SummaryBackoffMs

\* base_wait = 60.0 * (2 ** attempt)
SummaryBackoff(a) == SummaryBackoffMs * 2^a

\* _summarize_one_internal: wait_time + jitter with a hint,
\* 60.0 * 2 ** attempt + jitter without
TextTotalWait(e, a, j) ==
    LET wait_time == ExtractWaitSecondsFromError(e)
        base_wait == SummaryBackoff(a)
    IN  IF wait_time # 0
        THEN wait_time + (wait_time * j) \div 100
        ELSE base_wait + (base_wait * j) \div 100

\* _summ_img_internal: wait_time + jitter + buffer (10%) with a hint,
\* 60.0 * 2 ** attempt + jitter without
ImageTotalWait(e, a, j) ==
    LET wait_time == ExtractWaitSecondsFromError(e)
        base_wait == SummaryBackoff(a)
    IN  IF wait_time # 0
        THEN wait_time + (wait_time * j) \div 100 + wait_time \div 10
        ELSE base_wait + (base_wait * j) \div 100

\* for comparison: a retry loop that sleeps and retries on every error
RetriesAnyError(e) == TRUE

\* history: the wait just slept if the error carried no hint, else 0
UnhintedWait(e, wait) == IF e.hint THEN 0 ELSE wait

\* the except clause of the retry loops: sleep and continue on a rate-limit
\* error, re-raise anything else at once
RetriesError(e) == IsRateLimitError(e)

\* for attempt in range(max_retries): whether the loop has another round
\* after the round numbered a
LoopContinues(a) == a + 1 < SummaryMaxRetries

----------------------------------------------------------------------------
(* The background task of one document: process_upload_background *)

NoParents == [corrupt |-> FALSE, images |-> <<>>, texts |-> <<>>, tables |-> <<>>]

NoHist == [reason |-> "none", key_seen |-> FALSE, late_call |-> FALSE,
           store_fault |-> FALSE, ncalls |-> 0, nsleeps |-> 0,
           raised |-> NoError, img_ends |-> <<>>, txt_ends |-> <<>>,
           prev_wait |-> 0, removes |-> 0, removed |-> FALSE, removal |-> "none"]

images_b64(d) == ImagesB64(parents[d].images)
text_and_tables(d) == TextAndTables(parents[d])
images_count(d) == Len(images_b64(d))
text_count(d) == Len(text_and_tables(d))
total_chunks(d) == images_count(d) + text_count(d)
images_end_progress(d) == ImagesEndProgress(images_count(d), total_chunks(d))

\* for comparison: a batch that summarizes its first element for every element
ElementFirst(d) == text_and_tables(d)[1]

\* the element summarize_texts_and_tables is at
Element(d) == text_and_tables(d)[idx[d] + 1]

Blank(n) == [i \in 1..n |-> ""]

\* where _summarize_one goes for an element: no provider call for an empty one
TextEntry(element) == IF element = "empty" THEN "txt_store" ELSE "txt_try"

\* the rows after update_document_status(db, id=d, status, progress) returned o
Written(d, o, status, progress) ==
    IF o \in {"ok", "raise_late"} THEN UpdateDocumentStatus(documents, d, status, progress)
    ELSE documents

Spend(d, o) == IF o = "ok" THEN faults ELSE [faults EXCEPT ![d] = @ - 1]

\* history: whether a store operation of the run raised
Noted(d, o) == [hist EXCEPT ![d].store_fault = @ \/ o # "ok"]

\* the stores index_multivector writes
indexVars == <<parent_index, vectors, uuids>>

taskVars == <<parents, idx, attempt, last_error, total_wait, summary,
              image_summaries, text_table_summaries>>
loopVars == <<idx, attempt, last_error, total_wait, summary>>

\* The endpoints declared `async def` (upload, chat, chat_stream and its
\* generator) run on the one event loop of the server process; chat() calls
\* answer_question without awaiting, so from its first statement to its return
\* (the time.sleep of the retry wrapper included) it keeps the loop.
\* process_upload_background and remove_document are plain functions and run
\* on worker threads.
LoopFree == chat.pc \notin {"try", "call", "sleep", "answered"}

\* upload(): the row is created with status "processing" and the task is queued
Upload(d) ==
    /\ pc[d] = "none"
    /\ LoopFree
    /\ documents' = [documents EXCEPT ![d] = [status |-> "processing", progress |-> 0]]
    /\ pc' = [pc EXCEPT ![d] = "queued"]
    /\ UNCHANGED <<file, indexed, indexVars, taskVars, inflight, provider, faults, hist, chat, stream, probe,
                   chroma, bundle>>

\* a status write of the main path: on to `next`, or into the outer except
StatusStep(d, status, progress, next) ==
    /\ \E o \in UpdateOutcomes(d) :
        /\ documents' = Written(d, o, status, progress)
        /\ faults' = Spend(d, o)
        /\ hist' = Noted(d, o)
        /\ pc' = [pc EXCEPT ![d] = IF o = "ok" THEN next ELSE "outer_except"]
    /\ UNCHANGED <<file, indexed, indexVars, taskVars, inflight, provider, chat, stream, probe, chroma, bundle>>

\* upload.py line 32
Begin(d) ==
    /\ pc[d] = "queued"
    /\ StatusStep(d, "processing", 0, "parse")

\* upload.py line 38: process_pdf returns the parents or raises
ProcessPdf(d) ==
    /\ pc[d] = "parse"
    /\ parents' = [parents EXCEPT ![d] = IF file[d].corrupt THEN @ ELSE file[d]]
    /\ pc' = [pc EXCEPT ![d] = IF file[d].corrupt THEN "outer_except" ELSE "parsed"]
    /\ hist' = [hist EXCEPT ![d].reason = IF file[d].corrupt THEN "parse" ELSE @]
    /\ UNCHANGED <<documents, file, indexed, indexVars, loopVars, image_summaries,
                   text_table_summaries, inflight, provider, faults, chat, stream, probe,
                   chroma, bundle>>

\* upload.py line 47
ParsingDone(d) ==
    /\ pc[d] = "parsed"
    /\ StatusStep(d, "processing", PROGRESS_START, "build")

\* build_summaries up to the first batch (lines 486-532)
BuildSummaries(d) ==
    /\ pc[d] = "build"
    /\ pc' = [pc EXCEPT ![d] =
                IF total_chunks(d) = 0 THEN "summarized"
                ELSE IF images_count(d) > 0 THEN "img_item"
                ELSE "txt_item"]
    /\ image_summaries' = [image_summaries EXCEPT ![d] = Blank(images_count(d))]
    /\ text_table_summaries' =
         [text_table_summaries EXCEPT ![d] =
            IF images_count(d) = 0 THEN Blank(text_count(d)) ELSE @]
    /\ idx' = [idx EXCEPT ![d] = 0]
    /\ attempt' = [attempt EXCEPT ![d] = 0]
    /\ last_error' = [last_error EXCEPT ![d] = NoError]
    /\ summary' = [summary EXCEPT ![d] = ""]
    /\ hist' = [hist EXCEPT ![d].ncalls = 0, ![d].nsleeps = 0, ![d].raised = NoError,
                            ![d].prev_wait = 0]
    /\ UNCHANGED <<documents, file, indexed, indexVars, parents, total_wait, inflight, provider, faults, chat, stream, probe,
                   chroma, bundle>>

----------------------------------------------------------------------------
(* summarize_images: the loop over images_b64, one provider call at a time *)

ImageCall(d) == [doc |-> d, batch |-> "image", item |-> idx[d]]
TextCall(d) == [doc |-> d, batch |-> "text", item |-> idx[d]]

LastImage(d) == idx[d] + 1 >= images_count(d)
LastText(d) == idx[d] + 1 >= text_count(d)

\* for comparison: a build that enters the text/table batch as soon as one
\* image is done
AfterImageEager(d) == IF text_count(d) > 0 THEN "txt_item" ELSE "final_cb"

\* where the task goes after image idx is done: the next image, then the
\* text/table batch, then the closing callback of build_summaries
AfterImage(d) ==
    IF ~LastImage(d) THEN "img_item"
    ELSE IF text_count(d) > 0 THEN "txt_item"
    ELSE "final_cb"

\* for comparison: a text/table batch that returns after its first element
AfterTextStop(d) == "final_cb"

AfterText(d) == IF ~LastText(d) THEN "txt_item" ELSE "final_cb"

\* how a provider invocation that raised e ended, for the history: "key" for
\* a credential error, "error" for any other (a rate-limit error included,
\* whatever its type)
EndOf(e) == IF e.key /\ ~e.rate THEN "key" ELSE "error"

\* the loop body is entered: time.sleep(random.uniform(0.5, 1.5)) before every
\* image but the first, then _summ_img
ImgItem(d) ==
    /\ pc[d] = "img_item"
    /\ pc' = [pc EXCEPT ![d] = "img_try"]
    /\ attempt' = [attempt EXCEPT ![d] = 0]
    /\ last_error' = [last_error EXCEPT ![d] = NoError]
    /\ hist' = [hist EXCEPT ![d].ncalls = 0, ![d].nsleeps = 0, ![d].raised = NoError,
                            ![d].prev_wait = 0]
    /\ UNCHANGED <<documents, file, indexed, indexVars, parents, idx, total_wait, summary, image_summaries,
                   text_table_summaries, inflight, provider, faults, chat, stream, probe,
                   chroma, bundle>>

\* llm.invoke([message]) is entered
ImgCall(d) ==
    /\ pc[d] = "img_try"
    /\ inflight' = inflight \cup {ImageCall(d)}
    /\ pc' = [pc EXCEPT ![d] = "img_call"]
    /\ hist' = [hist EXCEPT ![d].ncalls = @ + 1,
                            ![d].late_call = @ \/ hist[d].key_seen]
    /\ UNCHANGED <<documents, file, indexed, indexVars, taskVars, provider, faults, chat, stream, probe,
                   chroma, bundle>>

\* llm.invoke returns or raises (lines 319-373)
ImgReply(d) ==
    /\ pc[d] = "img_call"
    /\ inflight' = inflight \ {ImageCall(d)}
    /\ \E a \in provider[d], j \in JitterPercents :
        /\ summary' = [summary EXCEPT ![d] = IF a.ok THEN SummImgResult(a.reply) ELSE @]
        /\ last_error' = [last_error EXCEPT ![d] = IF a.ok THEN @ ELSE a.error]
        /\ total_wait' = [total_wait EXCEPT ![d] =
                            IF ~a.ok /\ RetriesError(a.error)
                            THEN ImageTotalWait(a.error, attempt[d], j) ELSE 0]
        /\ pc' = [pc EXCEPT ![d] =
                    IF a.ok THEN "img_store"
                    ELSE IF RetriesError(a.error) THEN "img_sleep"
                    ELSE "img_except"]
        /\ hist' = [hist EXCEPT ![d].raised = IF a.ok THEN @ ELSE a.error,
                                ![d].prev_wait = IF a.ok THEN 0 ELSE @,
                                ![d].img_ends = IF a.ok THEN Append(@, "ok") ELSE @]
    /\ UNCHANGED <<documents, file, indexed, indexVars, parents, idx, attempt, image_summaries,
                   text_table_summaries, provider, faults, chat, stream, probe, chroma, bundle>>

\* time.sleep(total_wait); continue, or the loop is over and last_error is raised
ImgSleep(d) ==
    /\ pc[d] = "img_sleep"
    /\ total_wait' = [total_wait EXCEPT ![d] = 0]
    /\ attempt' = [attempt EXCEPT ![d] = @ + 1]
    /\ pc' = [pc EXCEPT ![d] = IF LoopContinues(attempt[d]) THEN "img_try" ELSE "img_except"]
    /\ hist' = [hist EXCEPT ![d].nsleeps = @ + 1,
                            ![d].prev_wait = UnhintedWait(last_error[d], total_wait[d])]
    /\ UNCHANGED <<documents, file, indexed, indexVars, parents, idx, last_error, summary, image_summaries,
                   text_table_summaries, inflight, provider, faults, chat, stream, probe,
                   chroma, bundle>>

\* _summ_img's except clause (lines 385-415)
ImgExcept(d) ==
    /\ pc[d] = "img_except"
    /\ summary' = [summary EXCEPT ![d] = SummImgOnError(last_error[d])]
    /\ pc' = [pc EXCEPT ![d] = "img_store"]
    /\ hist' = [hist EXCEPT ![d].img_ends = Append(@, EndOf(last_error[d])),
                            ![d].prev_wait = 0,
                            ![d].key_seen = @ \/ EndOf(last_error[d]) = "key"]
    /\ UNCHANGED <<documents, file, indexed, indexVars, parents, idx, attempt, last_error, total_wait,
                   image_summaries, text_table_summaries, inflight, provider, faults, chat, stream, probe,
                   chroma, bundle>>

\* results[idx] = summary and the progress callback (lines 438-443)
ImgStore(d) ==
    /\ pc[d] = "img_store"
    /\ image_summaries' = [image_summaries EXCEPT ![d][idx[d] + 1] = summary[d]]
    /\ \E o \in UpdateOutcomes(d) :
        LET progress == ReportedProgress(PROGRESS_START, images_end_progress(d),
                                         images_count(d), idx[d])
        IN  /\ documents' = Written(d, o, "processing", progress)
            /\ faults' = Spend(d, o)
            /\ hist' = Noted(d, o)
            /\ pc' = [pc EXCEPT ![d] = IF o = "ok" THEN AfterImage(d) ELSE "img_cb_except"]
            /\ idx' = [idx EXCEPT ![d] =
                         IF o # "ok" THEN @ ELSE IF LastImage(d) THEN 0 ELSE @ + 1]
            /\ text_table_summaries' =
                 [text_table_summaries EXCEPT ![d] =
                    IF o = "ok" /\ LastImage(d) THEN Blank(text_count(d)) ELSE @]
    /\ UNCHANGED <<file, indexed, indexVars, parents, attempt, last_error, total_wait, summary,
                   inflight, provider, chat, stream, probe, chroma, bundle>>

\* the loop's except clause (lines 452-461): the callback raised, the result is
\* overwritten and the callback is called once more; if it raises again the
\* exception leaves summarize_images and build_summaries
ImgCallbackExcept(d) ==
    /\ pc[d] = "img_cb_except"
    /\ image_summaries' = [image_summaries EXCEPT ![d][idx[d] + 1] = "[ERROR]"]
    /\ \E o \in UpdateOutcomes(d) :
        LET progress == ReportedProgress(PROGRESS_START, images_end_progress(d),
                                         images_count(d), idx[d])
        IN  /\ documents' = Written(d, o, "processing", progress)
            /\ faults' = Spend(d, o)
            /\ hist' = [Noted(d, o)
                          EXCEPT ![d].reason = IF o = "ok" THEN @ ELSE "callback"]
            /\ pc' = [pc EXCEPT ![d] = IF o = "ok" THEN AfterImage(d) ELSE "summ_except"]
            /\ idx' = [idx EXCEPT ![d] =
                         IF o # "ok" THEN @ ELSE IF LastImage(d) THEN 0 ELSE @ + 1]
            /\ text_table_summaries' =
                 [text_table_summaries EXCEPT ![d] =
                    IF o = "ok" /\ LastImage(d) THEN Blank(text_count(d)) ELSE @]
    /\ UNCHANGED <<file, indexed, indexVars, parents, attempt, last_error, total_wait, summary,
                   inflight, provider, chat, stream, probe, chroma, bundle>>

----------------------------------------------------------------------------
(* summarize_texts_and_tables: the loop over the text and table elements *)

\* the loop body is entered: time.sleep(random.uniform(0.5, 1.5)) before every
\* element but the first, then _summarize_one, which returns "" at once for an
\* empty element
TxtItem(d) ==
    /\ pc[d] = "txt_item"
    /\ pc' = [pc EXCEPT ![d] = TextEntry(Element(d))]
    /\ attempt' = [attempt EXCEPT ![d] = 0]
    /\ last_error' = [last_error EXCEPT ![d] = NoError]
    /\ summary' = [summary EXCEPT ![d] = IF Element(d) = "empty" THEN "" ELSE @]
    /\ hist' = [hist EXCEPT ![d].ncalls = 0, ![d].nsleeps = 0, ![d].raised = NoError,
                            ![d].prev_wait = 0,
                            ![d].txt_ends = IF Element(d) = "empty"
                                            THEN Append(@, "nocall") ELSE @]
    /\ UNCHANGED <<documents, file, indexed, indexVars, parents, idx, total_wait, image_summaries,
                   text_table_summaries, inflight, provider, faults, chat, stream, probe,
                   chroma, bundle>>

\* chain.invoke({"element": element_truncated}) is entered
TxtCall(d) ==
    /\ pc[d] = "txt_try"
    /\ inflight' = inflight \cup {TextCall(d)}
    /\ pc' = [pc EXCEPT ![d] = "txt_call"]
    /\ hist' = [hist EXCEPT ![d].ncalls = @ + 1,
                            ![d].late_call = @ \/ hist[d].key_seen]
    /\ UNCHANGED <<documents, file, indexed, indexVars, taskVars, provider, faults, chat, stream, probe,
                   chroma, bundle>>

\* chain.invoke returns or raises (lines 51-102), and _summarize_one's
\* post-processing of a returned reply (lines 131-151)
TxtReply(d) ==
    /\ pc[d] = "txt_call"
    /\ inflight' = inflight \ {TextCall(d)}
    /\ \E a \in provider[d], j \in JitterPercents :
        /\ summary' = [summary EXCEPT ![d] =
                         IF a.ok THEN SummarizeOneResult(a.reply, Element(d)) ELSE @]
        /\ last_error' = [last_error EXCEPT ![d] = IF a.ok THEN @ ELSE a.error]
        /\ total_wait' = [total_wait EXCEPT ![d] =
                            IF ~a.ok /\ RetriesError(a.error)
                            THEN TextTotalWait(a.error, attempt[d], j) ELSE 0]
        /\ pc' = [pc EXCEPT ![d] =
                    IF a.ok THEN "txt_store"
                    ELSE IF RetriesError(a.error) THEN "txt_sleep"
                    ELSE "txt_except"]
        /\ hist' = [hist EXCEPT ![d].raised = IF a.ok THEN @ ELSE a.error,
                                ![d].prev_wait = IF a.ok THEN 0 ELSE @,
                                ![d].txt_ends = IF a.ok THEN Append(@, "ok") ELSE @]
    /\ UNCHANGED <<documents, file, indexed, indexVars, parents, idx, attempt, image_summaries,
                   text_table_summaries, provider, faults, chat, stream, probe, chroma, bundle>>

\* time.sleep(total_wait); continue, or the loop is over and last_error is raised
TxtSleep(d) ==
    /\ pc[d] = "txt_sleep"
    /\ total_wait' = [total_wait EXCEPT ![d] = 0]
    /\ attempt' = [attempt EXCEPT ![d] = @ + 1]
    /\ pc' = [pc EXCEPT ![d] = IF LoopContinues(attempt[d]) THEN "txt_try" ELSE "txt_except"]
    /\ hist' = [hist EXCEPT ![d].nsleeps = @ + 1,
                            ![d].prev_wait = UnhintedWait(last_error[d], total_wait[d])]
    /\ UNCHANGED <<documents, file, indexed, indexVars, parents, idx, last_error, summary, image_summaries,
                   text_table_summaries, inflight, provider, faults, chat, stream, probe,
                   chroma, bundle>>

\* _summarize_one's except clause (lines 152-188)
TxtExcept(d) ==
    /\ pc[d] = "txt_except"
    /\ summary' = [summary EXCEPT ![d] = SummarizeOneOnError(last_error[d], Element(d))]
    /\ pc' = [pc EXCEPT ![d] = "txt_store"]
    /\ hist' = [hist EXCEPT ![d].txt_ends = Append(@, EndOf(last_error[d])),
                            ![d].prev_wait = 0,
                            ![d].key_seen = @ \/ EndOf(last_error[d]) = "key"]
    /\ UNCHANGED <<documents, file, indexed, indexVars, parents, idx, attempt, last_error, total_wait,
                   image_summaries, text_table_summaries, inflight, provider, faults, chat, stream, probe,
                   chroma, bundle>>

\* results[idx] = summary and the progress callback (lines 246-251)
TxtStore(d) ==
    /\ pc[d] = "txt_store"
    /\ text_table_summaries' = [text_table_summaries EXCEPT ![d][idx[d] + 1] = summary[d]]
    /\ \E o \in UpdateOutcomes(d) :
        LET progress == ReportedProgress(images_end_progress(d), PROGRESS_END,
                                         text_count(d), idx[d])
        IN  /\ documents' = Written(d, o, "processing", progress)
            /\ faults' = Spend(d, o)
            /\ hist' = Noted(d, o)
            /\ pc' = [pc EXCEPT ![d] = IF o = "ok" THEN AfterText(d) ELSE "txt_cb_except"]
            /\ idx' = [idx EXCEPT ![d] = IF o = "ok" /\ ~LastText(d) THEN @ + 1 ELSE @]
    /\ UNCHANGED <<file, indexed, indexVars, parents, attempt, last_error, total_wait, summary,
                   image_summaries, inflight, provider, chat, stream, probe, chroma, bundle>>

\* the loop's except clause (lines 259-268): the callback raised, the result is
\* overwritten with "" and the callback is called once more; if it raises again
\* the exception leaves summarize_texts_and_tables and build_summaries
TxtCallbackExcept(d) ==
    /\ pc[d] = "txt_cb_except"
    /\ text_table_summaries' = [text_table_summaries EXCEPT ![d][idx[d] + 1] = ""]
    /\ \E o \in UpdateOutcomes(d) :
        LET progress == ReportedProgress(images_end_progress(d), PROGRESS_END,
                                         text_count(d), idx[d])
        IN  /\ documents' = Written(d, o, "processing", progress)
            /\ faults' = Spend(d, o)
            /\ hist' = [Noted(d, o)
                          EXCEPT ![d].reason = IF o = "ok" THEN @ ELSE "callback"]
            /\ pc' = [pc EXCEPT ![d] = IF o = "ok" THEN AfterText(d) ELSE "summ_except"]
            /\ idx' = [idx EXCEPT ![d] = IF o = "ok" /\ ~LastText(d) THEN @ + 1 ELSE @]
    /\ UNCHANGED <<file, indexed, indexVars, parents, attempt, last_error, total_wait, summary,
                   image_summaries, inflight, provider, chat, stream, probe, chroma, bundle>>

----------------------------------------------------------------------------
(* vector_service.index_multivector *)

EmptyMap == [id \in {} |-> 0]

\* an element of parents["texts"], parents["tables"] or parents["images"]:
\* its "type", its position in its list (standing for what tells it from the
\* others: page number, text) and its body, the class of its "text" or, for
\* an image, whether "b64" has the bytes ("b64") or is None ("nob64")
Parent(type, pos, body) == [type |-> type, pos |-> pos, body |-> body]

\* the JSON values of a parents index file
JsonNull == [json |-> "null"]
JsonString(s) == [json |-> "string", value |-> s]
JsonNumber(n) == [json |-> "number", value |-> n]

\* json.dump of a parent: strings as strings, numbers as numbers, None as null
JsonDumpParent(p) ==
    [type |-> JsonString(p.type), pos |-> JsonNumber(p.pos),
     body |-> IF p.body = "nob64" THEN JsonNull ELSE JsonString(p.body)]

\* for comparison: a reader that takes null for the empty string
JsonLoadParentNullAsText(j) ==
    [type |-> j.type.value, pos |-> j.pos.value,
     body |-> IF j.body.json = "null" THEN "" ELSE j.body.value]

\* json.load of a parent: null as None
JsonLoadParent(j) ==
    [type |-> j.type.value, pos |-> j.pos.value,
     body |-> IF j.body.json = "null" THEN "nob64" ELSE j.body.value]

\* save_json / load_json of a parent map: the keys are strings and stay so
JsonDump(map) == [id \in DOMAIN map |-> JsonDumpParent(map[id])]
JsonLoad(object) == [id \in DOMAIN object |-> JsonLoadParent(object[id])]

\* the parents index file of a document: absent, or holding the JSON object
\* of a parent map
NoIndex == [exists |-> FALSE, map |-> EmptyMap]
SavedIndex(map) == [exists |-> TRUE, map |-> JsonDump(map)]

\* load_json of an index file: {} when the file does not exist
LoadJson(indexFile) == JsonLoad(indexFile.map)

\* _load_parents_index
LoadParentsIndex(d) == LoadJson(parent_index[d])

\* pindex.get(parent_id) of a lookup that found nothing
NoParent == [type |-> "none", pos |-> 0, body |-> "none"]

\* load_json(...).get(parent_id) on an index file
Lookup(indexFile, id) ==
    IF id \in DOMAIN LoadJson(indexFile) THEN LoadJson(indexFile)[id] ELSE NoParent

\* _load_parents_index(doc_id).get(parent_id)
Resolve(d, id) == Lookup(parent_index[d], id)

\* no call of retrieve_with_sources yet
NoDocumentId == ""
NoBundle ==
    [called |-> FALSE, k |-> 0, document_id |-> NoDocumentId, include_images |-> FALSE,
     hits |-> <<>>, sources |-> <<>>, parents |-> <<>>, raised |-> FALSE]

\* for comparison: the texts alone
TextParentsOnly(p) == [i \in 1..Len(p.texts) |-> Parent("text", i, p.texts[i])]

\* parents.get("texts", []) + parents.get("tables", []) as parent elements
TextTableParents(p) ==
    [i \in 1..Len(p.texts) |-> Parent("text", i, p.texts[i])]
    \o [i \in 1..Len(p.tables) |-> Parent("table", i, p.tables[i])]

\* parents.get("images", []): every image, with or without bytes
ImageParents(p) == [i \in 1..Len(p.images) |-> Parent("image", i, p.images[i])]

\* the positions in parents["images"] of the images summarize_images was given
RECURSIVE B64Positions(_, _)
B64Positions(images, from) ==
    IF from > Len(images) THEN <<>>
    ELSE (IF images[from] = "b64" THEN <<from>> ELSE <<>>)
         \o B64Positions(images, from + 1)

\* the two loops of index_multivector: parent i of a list is paired with
\* summary i of the matching list until either list ends; `derived_from` is the
\* element summary i was derived from
IndexedPairs(d) ==
    LET tt == TextTableParents(parents[d])
        im == ImageParents(parents[d])
        b64 == B64Positions(parents[d].images, 1)
        nt == Min(Len(tt), Len(text_table_summaries[d]))
        ni == Min(Len(im), Len(image_summaries[d]))
    IN  [i \in 1..nt |-> [parent |-> tt[i], summary |-> text_table_summaries[d][i],
                          derived_from |-> tt[i]]]
        \o [i \in 1..ni |-> [parent |-> im[i], summary |-> image_summaries[d][i],
                              derived_from |-> im[b64[i]]]]

\* parent_id = str(uuid.uuid4()) of the i-th pair: an id not generated before
ParentId(i) == uuids + i

\* the entries the call adds: parent_index[parent_id] = parent
NewParents(d) ==
    [id \in {ParentId(i) : i \in 1..Len(IndexedPairs(d))} |->
        IndexedPairs(d)[id - uuids].parent]

\* for comparison: a call that saves only the entries it has just built
OverwriteParents(old, new) == new

\* parent maps written by earlier calls, prior[d] entries for document d, and
\* their children; the ids of d1 come first
NoPrior == [d \in Docs |-> 0]
PriorCount(prior) == prior["d1"] + prior["d2"]
PriorIds(prior, d) ==
    IF d = "d1" THEN 1..prior[d] ELSE (prior["d1"] + 1)..(prior["d1"] + prior[d])
PriorParentsOf(prior, d) == [id \in PriorIds(prior, d) |-> Parent("text", id, "long")]
PriorParents(n) == PriorParentsOf([NoPrior EXCEPT !["d1"] = n], "d1")
PriorChild(d, id) ==
    [doc_id |-> d, parent_id |-> id, type |-> "text", page_content |-> "long",
     derived_from |-> Parent("text", id, "long")]

\* the stores before the first upload of a run: the parent maps and children
\* of earlier calls, and the failures of the vector store to come
PriorStore(prior, failures) ==
    [uuids |-> PriorCount(prior),
     parent_index |-> [d \in Docs |-> IF prior[d] > 0
                                       THEN SavedIndex(PriorParentsOf(prior, d))
                                       ELSE NoIndex],
     vectors |-> UNION { {PriorChild(d, id) : id \in PriorIds(prior, d)} : d \in Docs },
     chroma |-> failures]
EmptyStore == PriorStore(NoPrior, 0)

\* the loaded map after the assignments of the call
MergeParents(old, new) ==
    [id \in DOMAIN old \cup DOMAIN new |-> IF id \in DOMAIN new THEN new[id] ELSE old[id]]

\* child_docs: one record per pair, the summary as page_content
ChildDocs(d) ==
    { [doc_id |-> d, parent_id |-> ParentId(i),
       type |-> IndexedPairs(d)[i].parent.type,
       page_content |-> IndexedPairs(d)[i].summary,
       derived_from |-> IndexedPairs(d)[i].derived_from] : i \in 1..Len(IndexedPairs(d)) }

\* index_multivector returns, or raises while store failures are still to
\* come: before anything is written ("raise"), or in _save_parents_index after
\* vectorstore.add_documents ("raise_save"); or, while failures of the vector
\* store are still to come, _get_vectorstore catches a collection error,
\* deletes the collection and creates it again ("recreated", the call goes on)
IndexOutcomes(d) ==
    (IF faults[d] > 0 THEN {"ok", "raise", "raise_save"} ELSE {"ok"})
    \cup (IF chroma > 0 THEN {"recreated"} ELSE {})

\* the outcomes with which a call returns to its caller
Returned(o) == o \in {"ok", "recreated", "keep_index", "keep_vectors"}

\* the collection as _get_vectorstore hands it to the call
Collection(o) == IF o = "recreated" THEN {} ELSE vectors

\* one failure of the vector store or the index files less to come
SpendStore(o) == IF o = "ok" THEN chroma ELSE chroma - 1

\* remove_document returns, or meets a failure of the vector store or the
\* index files while such are still to come: os.remove raises OSError, which is passed over ("keep_index");
\* _get_vectorstore deletes the collection and creates it again ("recreated")
\* or raises, and so does the request ("store_raises"); vectorstore.delete
\* raises, which is passed over ("keep_vectors"); delete_document raises
\* ("row_raises"); os.remove is called only when the index file exists
RemoveOutcomes(d) ==
    IF chroma > 0
    THEN {"ok", "recreated", "store_raises", "keep_vectors", "row_raises"}
         \cup (IF parent_index[d].exists THEN {"keep_index"} ELSE {})
    ELSE {"ok"}

----------------------------------------------------------------------------
(* The end of build_summaries and the rest of process_upload_background *)

\* progress_callback(PROGRESS_END) (lines 547-548); if it raises, the exception
\* leaves build_summaries
FinalCallback(d) ==
    /\ pc[d] = "final_cb"
    /\ \E o \in UpdateOutcomes(d) :
        /\ documents' = Written(d, o, "processing", PROGRESS_END)
        /\ faults' = Spend(d, o)
        /\ hist' = [Noted(d, o)
                      EXCEPT ![d].reason = IF o = "ok" THEN @ ELSE "callback"]
        /\ pc' = [pc EXCEPT ![d] = IF o = "ok" THEN "breaker" ELSE "summ_except"]
    /\ UNCHANGED <<file, indexed, indexVars, taskVars, inflight, provider, chat, stream, probe, chroma, bundle>>

\* the circuit breaker (lines 550-596): RuntimeError or the summaries
Breaker(d) ==
    LET trips == BreakerTrips(text_table_summaries[d], image_summaries[d])
    IN  /\ pc[d] = "breaker"
        /\ pc' = [pc EXCEPT ![d] = IF trips THEN "summ_except" ELSE "summarized"]
        /\ hist' = [hist EXCEPT ![d].reason = IF trips THEN "breaker" ELSE @]
        /\ UNCHANGED <<documents, file, indexed, indexVars, taskVars, inflight, provider, faults, chat, stream, probe,
                   chroma, bundle>>

\* a handler that marks the document failed and returns (upload.py lines
\* 59-81 and 105-119); if the write raises, the outer except takes over
FailedStep(d) ==
    /\ \E o \in UpdateOutcomes(d) :
        /\ documents' = Written(d, o, "failed", 0)
        /\ faults' = Spend(d, o)
        /\ hist' = Noted(d, o)
        /\ pc' = [pc EXCEPT ![d] = IF o = "ok" THEN "done" ELSE "outer_except"]
    /\ UNCHANGED <<file, indexed, indexVars, taskVars, inflight, provider, chat, stream, probe, chroma, bundle>>

\* upload.py lines 59-81: build_summaries raised
SummaryFailed(d) ==
    /\ pc[d] = "summ_except"
    /\ FailedStep(d)

\* upload.py line 89
SummariesDone(d) ==
    /\ pc[d] = "summarized"
    /\ StatusStep(d, "processing", PROGRESS_END, "persist")

\* upload.py line 93: persist_summaries writes summaries.json or raises
PersistSummaries(d) ==
    /\ pc[d] = "persist"
    /\ \E o \in StoreOutcomes(d) :
        /\ faults' = Spend(d, o)
        /\ hist' = [hist EXCEPT ![d].store_fault = @ \/ o # "ok",
                                ![d].reason = IF o = "ok" THEN @ ELSE "persist"]
        /\ pc' = [pc EXCEPT ![d] = IF o = "ok" THEN "persisted" ELSE "outer_except"]
    /\ UNCHANGED <<documents, file, indexed, indexVars, taskVars, inflight, provider, chat, stream, probe,
                   chroma, bundle>>

\* upload.py line 95
Persisted(d) ==
    /\ pc[d] = "persisted"
    /\ StatusStep(d, "processing", 90, "index")

\* upload.py lines 101-105: index_multivector writes the vectors and the parents
\* index of the document, or raises
IndexDocument(d) ==
    /\ pc[d] = "index"
    /\ \E o \in IndexOutcomes(d) :
        /\ faults' = IF o = "recreated" THEN faults ELSE Spend(d, o)
        /\ chroma' = IF o = "recreated" THEN SpendStore(o) ELSE chroma
        /\ indexed' = IF Returned(o) THEN indexed \cup {d} ELSE indexed
        /\ uuids' = IF o = "raise" THEN uuids ELSE uuids + Len(IndexedPairs(d))
        /\ vectors' = IF o = "raise" THEN vectors ELSE Collection(o) \cup ChildDocs(d)
        /\ parent_index' =
             [parent_index EXCEPT ![d] =
                IF Returned(o)
                THEN SavedIndex(MergeParents(LoadParentsIndex(d), NewParents(d)))
                ELSE @]
        /\ hist' = [hist EXCEPT ![d].store_fault = @ \/ ~Returned(o),
                                ![d].reason = IF Returned(o) THEN @ ELSE "index"]
        /\ pc' = [pc EXCEPT ![d] = IF Returned(o) THEN "indexed" ELSE "index_except"]
    /\ UNCHANGED <<documents, file, taskVars, inflight, provider, chat, stream, probe, bundle>>

\* for comparison: a handler that logs the failure and goes on to step 5
IndexFailedGoesOn(d) ==
    /\ pc[d] = "index_except"
    /\ pc' = [pc EXCEPT ![d] = "indexed"]
    /\ UNCHANGED <<documents, file, indexed, indexVars, taskVars, inflight, provider, faults, hist,
                   chat, stream, probe, chroma, bundle>>

\* upload.py lines 105-119: index_multivector raised
IndexFailed(d) ==
    /\ pc[d] = "index_except"
    /\ FailedStep(d)

\* upload.py line 124
Complete(d) ==
    /\ pc[d] = "indexed"
    /\ \E o \in UpdateOutcomes(d) :
        /\ documents' = Written(d, o, "completed", 100)
        /\ faults' = Spend(d, o)
        /\ hist' = Noted(d, o)
        /\ pc' = [pc EXCEPT ![d] = IF o = "ok" THEN "done" ELSE "outer_except"]
    /\ UNCHANGED <<file, indexed, indexVars, taskVars, inflight, provider, chat, stream, probe, chroma, bundle>>

\* upload.py lines 129-147: the outer except; a failure of its own status
\* write is logged and swallowed
OuterExcept(d) ==
    /\ pc[d] = "outer_except"
    /\ \E o \in UpdateOutcomes(d) :
        /\ documents' = Written(d, o, "failed", 0)
        /\ faults' = Spend(d, o)
        /\ hist' = Noted(d, o)
        /\ pc' = [pc EXCEPT ![d] = "done"]
    /\ UNCHANGED <<file, indexed, indexVars, taskVars, inflight, provider, chat, stream, probe, chroma, bundle>>

\* documents.py remove_document: the parents index file is removed, then the
\* vectors of the document (delete_vectors_for_document), then the row; the
\* background task of the document is not stopped
RemoveDocument(d) ==
    /\ documents[d] # NoDoc
    /\ \E o \in RemoveOutcomes(d) :
        /\ chroma' = SpendStore(o)
        /\ parent_index' = [parent_index EXCEPT ![d] = IF o = "keep_index" THEN @ ELSE NoIndex]
        /\ vectors' = IF o \in {"store_raises", "keep_vectors"} THEN vectors
                      ELSE {v \in Collection(o) : v.doc_id # d}
        /\ documents' = IF Returned(o) THEN [documents EXCEPT ![d] = NoDoc] ELSE documents
        /\ indexed' = IF Returned(o) THEN indexed \ {d} ELSE indexed
        /\ hist' = [hist EXCEPT ![d].removes = @ + 1, ![d].removed = @ \/ Returned(o),
                                ![d].removal = o]
    /\ UNCHANGED <<pc, file, taskVars, inflight, provider, faults, chat, stream, uuids, probe,
                   bundle>>

\* the steps of a run in which every store operation returns and the
\* circuit breaker stays closed
Stages(d) ==
    \/ Begin(d) \/ ProcessPdf(d) \/ ParsingDone(d) \/ BuildSummaries(d)
    \/ FinalCallback(d) \/ Breaker(d) \/ SummariesDone(d)
    \/ PersistSummaries(d) \/ Persisted(d) \/ IndexDocument(d) \/ Complete(d)

\* the steps of the image batch, without its retry loop's sleep
ImageBatch(d) ==
    ImgItem(d) \/ ImgCall(d) \/ ImgReply(d) \/ ImgExcept(d) \/ ImgStore(d)

\* the steps of the text/table batch, without its retry loop's sleep
TextBatch(d) ==
    TxtItem(d) \/ TxtCall(d) \/ TxtReply(d) \/ TxtExcept(d) \/ TxtStore(d)

\* the steps only a failing store operation leads to
StoreFailure(d) ==
    ImgCallbackExcept(d) \/ TxtCallbackExcept(d) \/ IndexFailed(d)

\* one step of document d's background task
Task(d) ==
    \/ Stages(d) \/ SummaryFailed(d) \/ OuterExcept(d)
    \/ ImageBatch(d) \/ ImgSleep(d)
    \/ TextBatch(d) \/ TxtSleep(d)
    \/ StoreFailure(d)

----------------------------------------------------------------------------
(* vector_service.retrieve_with_sources                                     *)

\* raw scores are held in units of 0.00001, rounded scores in units of 0.0001
One == 100000
Half == 50000
DistanceCeiling == 250000
RoundedOne == 10000

Max(a, b) == IF a > b THEN a ELSE b

\* round(x, 4) of a score held in units of 0.00001
Round4(x) == (x + 5) \div 10

\* num / den to `digits` decimals, by long division: <<quotient, remainder>>
RECURSIVE LongDivision(_, _, _)
LongDivision(num, den, digits) ==
    IF digits = 0 THEN <<num \div den, num % den>>
    ELSE LET q == LongDivision(num, den, digits - 1)
         IN  <<q[1] * 10 + (q[2] * 10) \div den, (q[2] * 10) % den>>

\* round(num / den, 4) for 0 <= num
RoundRatio(num, den) ==
    LET q == LongDivision(num, den, 4)
    IN  IF 2 * q[2] >= den THEN q[1] + 1 ELSE q[1]

\* the raw scores a search can return, nearest first: the i-th hit has score
\* first + (i - 1) * step
RawScore(profile, i) == profile.first + (i - 1) * profile.step

\* vectorstore.similarity_search_with_score(query, k=max(k * 3, 10)): the
\* children of the collection in the order `ranking`, cut at the fetch size
Fetch(k) == Max(k * 3, 10)
SimilaritySearchWithScore(ranking, k, profile) ==
    [i \in 1..Min(Fetch(k), Len(ranking)) |->
        [child |-> ranking[i], raw |-> RawScore(profile, i)]]

\* every order in which the collection can answer a query
Rankings(collection) ==
    { r \in [1..Cardinality(collection) -> collection] :
        \A i, j \in DOMAIN r : i # j => r[i] # r[j] }

\* max_score = max(raw_scores), 0.0 without scores
MaxScore(hits) ==
    IF hits = <<>> THEN 0
    ELSE CHOOSE m \in {hits[i].raw : i \in DOMAIN hits} :
            \A i \in DOMAIN hits : hits[i].raw <= m

\* is_distance = max_score > 0.5 and max_score < 2.5
IsDistance(max_score) == max_score > Half /\ max_score < DistanceCeiling

\* normalization_factor = max(2.0, max_score * 1.1), in units of 0.000001
NormalizationFactor(max_score) == Max(20 * One, 11 * max_score)

\* for comparison: a score that is not cut to the range 0..1
SimilarityUncut(raw, max_score) ==
    IF IsDistance(max_score)
    THEN LET nf == NormalizationFactor(max_score)
         IN  IF nf - 10 * raw >= 0 THEN RoundRatio(nf - 10 * raw, nf)
             ELSE 0 - RoundRatio(10 * raw - nf, nf)
    ELSE Round4(raw)

\* similarity_score (lines 222-234), rounded as round(similarity_score, 4)
Similarity(raw, max_score) ==
    IF IsDistance(max_score)
    THEN LET nf == NormalizationFactor(max_score)
             num == nf - 10 * raw
         IN  IF num <= 0 THEN 0
             ELSE IF num >= nf THEN RoundedOne
             ELSE RoundRatio(num, nf)
    ELSE IF raw > One
         THEN (IF max_score > 0 THEN Min(RoundedOne, RoundRatio(raw, max_score)) ELSE 0)
         ELSE Max(0, Min(RoundedOne, Round4(raw)))

\* for comparison: a loop that does not test doc_id
SurvivesAnyDocument(child, document_id, include_images) ==
    /\ ~(~include_images /\ child.type = "image")
    /\ Resolve(child.doc_id, child.parent_id) # NoParent

\* the tests of the loop (lines 208-221): the hit is kept unless it is of
\* another document than the one asked for, or an image when images are not
\* wanted, or its parent is not in its document's parent map
Survives(child, document_id, include_images) ==
    /\ ~(document_id # NoDocumentId /\ child.doc_id # document_id)
    /\ ~(~include_images /\ child.type = "image")
    /\ Resolve(child.doc_id, child.parent_id) # NoParent

\* the positions of the hits the loop appends: in the order of the search,
\* until `taken >= k`
RECURSIVE Taken(_, _, _, _, _, _)
Taken(hits, i, taken, k, document_id, include_images) ==
    IF i > Len(hits) THEN <<>>
    ELSE IF ~Survives(hits[i].child, document_id, include_images)
         THEN Taken(hits, i + 1, taken, k, document_id, include_images)
         ELSE <<i>> \o (IF taken + 1 >= k THEN <<>>
                        ELSE Taken(hits, i + 1, taken + 1, k, document_id, include_images))

\* src of a hit (lines 236-254); `doc_id` and `hit` are history: the document
\* of the hit and its position in the search
Source(hits, i) ==
    LET child == hits[i].child
    IN  [parent_id |-> child.parent_id, type |-> child.type,
         summary |-> child.page_content,
         score |-> Similarity(hits[i].raw, MaxScore(hits)),
         raw_score |-> Round4(hits[i].raw),
         body |-> Resolve(child.doc_id, child.parent_id).body,
         doc_id |-> child.doc_id, hit |-> i]

\* for comparison: the sources left in the order of the loop
SortedNot(sources) == sources

\* sources.sort(key=lambda x: x.get("score", 0), reverse=True): a stable sort
RECURSIVE InsertByScore(_, _)
InsertByScore(src, sorted) ==
    IF sorted = <<>> THEN <<src>>
    ELSE IF Head(sorted).score <= src.score THEN <<src>> \o sorted
         ELSE <<Head(sorted)>> \o InsertByScore(src, Tail(sorted))
RECURSIVE Sorted(_)
Sorted(sources) ==
    IF sources = <<>> THEN <<>>
    ELSE InsertByScore(Head(sources), Sorted(Tail(sources)))

\* the positions of the hits whose parent map the loop loads: those that
\* pass the tests of doc_id and type, while fewer than k were taken
Loaded(hits, k, document_id, include_images) ==
    {i \in DOMAIN hits :
        /\ ~(document_id # NoDocumentId /\ hits[i].child.doc_id # document_id)
        /\ ~(~include_images /\ hits[i].child.type = "image")
        /\ Len(Taken(SubSeq(hits, 1, i - 1), 1, 0, k, document_id, include_images)) < k}

\* the parents index file of d can change while the search reads it: the
\* background task of d is in index_multivector, whose save_json truncates
\* the file and then writes it, or the file exists and remove_document can be
\* serving a request for d (os.remove between load_json's os.path.exists and
\* its open)
Racing(d) == pc[d] = "index" \/ (parent_index[d].exists /\ documents[d] # NoDoc)

\* _get_vectorstore returns the collection, or, while failures of the vector
\* store are still to come, deletes it and creates it again ("recreated");
\* load_json raises when it reads a file that is being written or removed
\* ("load_raises": json.JSONDecodeError, FileNotFoundError)
RetrieveOutcomes(hits, k, document_id, include_images) ==
    {"ok"} \cup (IF chroma > 0 THEN {"recreated"} ELSE {})
    \cup (IF \E i \in Loaded(hits, k, document_id, include_images) :
                Racing(hits[i].child.doc_id)
          THEN {"load_raises"} ELSE {})

\* retrieve_with_sources(query, k, document_id, include_images); the query is
\* given by what the search returns for it
Retrieve(ranking, k, document_id, include_images, profile) ==
    /\ ~bundle.called
    /\ \E o \in RetrieveOutcomes(SimilaritySearchWithScore(ranking, k, profile), k,
                                 document_id, include_images) :
        LET hits == SimilaritySearchWithScore(IF o = "recreated" THEN <<>> ELSE ranking, k, profile)
            taken == IF o = "load_raises" THEN <<>>
                     ELSE Taken(hits, 1, 0, k, document_id, include_images)
        IN  /\ chroma' = IF o = "recreated" THEN SpendStore(o) ELSE chroma
            /\ vectors' = Collection(o)
            /\ bundle' =
                 [called |-> TRUE, k |-> k, document_id |-> document_id,
                  include_images |-> include_images, hits |-> hits,
                  sources |-> Sorted([n \in DOMAIN taken |-> Source(hits, taken[n])]),
                  parents |-> [n \in DOMAIN taken |->
                                 Resolve(hits[taken[n]].child.doc_id,
                                         hits[taken[n]].child.parent_id)],
                  raised |-> o = "load_raises"]
    /\ UNCHANGED <<documents, pc, file, taskVars, inflight, provider, faults, indexed, hist,
                   chat, stream, parent_index, uuids, probe>>

----------------------------------------------------------------------------
(* rate_limit.with_rate_limit_retry around rag_service._chat_via_gemini, as  *)
(* called by the non-streaming chat endpoint (chat.py lines 52-78)           *)

\* default_wait * (backoff_multiplier ** attempt), backoff_multiplier = 1.5
ChatBackoff(a) == (ChatDefaultWaitMs * 3^a) \div 2^a

\* the wrapper's wait_time after a rate-limit error e in round a
ChatWaitTime(e, a) ==
    IF ExtractWaitSecondsFromError(e) # 0
    THEN ExtractWaitSecondsFromError(e)
    ELSE ChatBackoff(a)

\* the wrapper's except clause: retry a rate-limit error while attempt <
\* max_retries, re-raise anything else
WrapperRetries(e, a) == IsRateLimitError(e) /\ a < ChatMaxRetries

IdleChat == [pc |-> "idle", attempt |-> 0, wait_time |-> 0, last_error |-> NoError,
             raised |-> NoError, ncalls |-> 0, nsleeps |-> 0,
             messages |-> <<>>, provider |-> {}, prev_wait |-> 0]

\* chat(): the user message is saved and answer_question is entered
ChatBegin ==
    /\ chat.pc = "idle"
    /\ chat.provider # {}
    /\ chat' = [chat EXCEPT !.pc = "try", !.wait_time = ChatDefaultWaitMs,
                            !.messages = Append(@, "user")]
    /\ UNCHANGED <<documents, pc, file, taskVars, inflight, provider, faults, indexed, indexVars, hist, stream, probe,
                   chroma, bundle>>

\* func(*args, **kwargs) is entered
ChatCall ==
    /\ chat.pc = "try"
    /\ chat' = [chat EXCEPT !.pc = "call", !.ncalls = @ + 1]
    /\ UNCHANGED <<documents, pc, file, taskVars, inflight, provider, faults, indexed, indexVars, hist, stream, probe,
                   chroma, bundle>>

\* for comparison: a failure that is not retried is answered with its text
ChatOutcomeExplained(a, round) ==
    IF a.ok THEN "answered"
    ELSE IF WrapperRetries(a.error, round) THEN "sleep"
    ELSE "answered"

\* where the wrapper goes when func returns or raises: it returns the reply,
\* sleeps before the next round, or raises to answer_question and chat(),
\* neither of which catches anything
ChatOutcome(a, round) ==
    IF a.ok THEN "answered"
    ELSE IF WrapperRetries(a.error, round) THEN "sleep"
    ELSE "raised"

\* func returns or raises (rate_limit.py lines 220-268)
ChatReply ==
    /\ chat.pc = "call"
    /\ \E a \in chat.provider :
        chat' = [chat EXCEPT
                   !.pc = ChatOutcome(a, chat.attempt),
                   !.last_error = IF a.ok THEN @ ELSE a.error,
                   !.raised = IF a.ok THEN @ ELSE a.error,
                   !.wait_time = IF ~a.ok /\ IsRateLimitError(a.error)
                                 THEN ChatWaitTime(a.error, chat.attempt) ELSE @]
    /\ UNCHANGED <<documents, pc, file, taskVars, inflight, provider, faults, indexed, indexVars, hist, stream, probe,
                   chroma, bundle>>

\* time.sleep(wait_time); continue
ChatSleep ==
    /\ chat.pc = "sleep"
    /\ chat' = [chat EXCEPT !.pc = "try", !.attempt = @ + 1, !.nsleeps = @ + 1,
                            !.prev_wait = UnhintedWait(chat.last_error, chat.wait_time)]
    /\ UNCHANGED <<documents, pc, file, taskVars, inflight, provider, faults, indexed, indexVars, hist, stream, probe,
                   chroma, bundle>>

\* chat(): the assistant message is saved and the response returned
ChatSave ==
    /\ chat.pc = "answered"
    /\ chat' = [chat EXCEPT !.pc = "done", !.messages = Append(@, "assistant")]
    /\ UNCHANGED <<documents, pc, file, taskVars, inflight, provider, faults, indexed, indexVars, hist, stream, probe,
                   chroma, bundle>>

ChatStep == ChatBegin \/ ChatCall \/ ChatReply \/ ChatSleep \/ ChatSave

----------------------------------------------------------------------------
(* The streaming chat request: chat_stream and its event_generator           *)
(* (chat.py lines 81-186)                                                    *)

\* 60.0 * (1.5 ** retry_count)
StreamBackoff(r) == (StreamDefaultWaitMs * 3^r) \div 2^r

\* wait_time of the generator after a rate-limit error e
StreamWaitTime(e, r) ==
    IF ExtractWaitSecondsFromError(e) # 0
    THEN ExtractWaitSecondsFromError(e)
    ELSE StreamBackoff(r)

\* total_wait = wait_time + wait_time * jitter_percent
StreamTotalWait(e, r, j) == StreamWaitTime(e, r) + (StreamWaitTime(e, r) * j) \div 100

\* for comparison: a generator that retries whatever retry_count is
StreamRetriesAlways(e, r) == IsRateLimitError(e)

\* is_rate_limit_error(e) and retry_count < max_retries
StreamRetries(e, r) == IsRateLimitError(e) /\ r < StreamMaxRetries

\* for comparison: a generator whose error branch returns
AfterFailureReturn(retry) == IF retry THEN "sleep" ELSE "ended"

\* where the except clause leaves the generator: in asyncio.sleep, or, after
\* the break, in the finally clause
AfterFailure(retry) == IF retry THEN "sleep" ELSE "finally"

ContentChunk == [type |-> "chunk"]
ErrorChunk == [type |-> "error"]
EndEvent == [type |-> "end"]
RateLimitEvent(total, r) ==
    [type |-> "rate_limit", wait_seconds |-> total \div 1000,
     retry_attempt |-> r + 1, max_retries |-> StreamMaxRetries + 1]

IdleStream == [pc |-> "idle", retry_count |-> 0, total_wait |-> 0, prev_wait |-> 0,
               last_error |-> NoError, chunks |-> 0, events |-> <<>>,
               response_buffer |-> <<>>, messages |-> <<>>, provider |-> {}]

\* chat_stream(): the user message is saved, the prompt built and the
\* generator started
StreamBegin ==
    /\ stream.pc = "idle"
    /\ stream.provider # {}
    /\ LoopFree
    /\ stream' = [stream EXCEPT !.pc = "gen", !.messages = Append(@, "user")]
    /\ UNCHANGED <<documents, pc, file, taskVars, inflight, provider, faults, indexed,
                   indexVars, hist, chat, probe, chroma, bundle>>

\* llm.astream yields a chunk with content: buffered and sent
StreamChunk ==
    /\ stream.pc = "gen"
    /\ stream.chunks < MaxChunks
    /\ LoopFree
    /\ stream' = [stream EXCEPT !.chunks = @ + 1,
                                !.response_buffer = Append(@, ContentChunk),
                                !.events = Append(@, ContentChunk)]
    /\ UNCHANGED <<documents, pc, file, taskVars, inflight, provider, faults, indexed,
                   indexVars, hist, chat, probe, chroma, bundle>>

\* llm.astream is exhausted: break
StreamDone ==
    /\ stream.pc = "gen"
    /\ LoopFree
    /\ \E a \in stream.provider : a.ok
    /\ stream' = [stream EXCEPT !.pc = "finally"]
    /\ UNCHANGED <<documents, pc, file, taskVars, inflight, provider, faults, indexed,
                   indexVars, hist, chat, probe, chroma, bundle>>

\* llm.astream raises (lines 124-165): a rate_limit event and asyncio.sleep, or
\* the error chunk and break
StreamFail ==
    /\ stream.pc = "gen"
    /\ LoopFree
    /\ \E a \in stream.provider, j \in JitterPercents :
        /\ ~a.ok
        /\ LET r == stream.retry_count
               retry == StreamRetries(a.error, r)
               total == StreamTotalWait(a.error, r, j)
           IN  stream' = [stream EXCEPT
                   !.pc = AfterFailure(retry),
                   !.last_error = a.error,
                   !.total_wait = IF retry THEN total ELSE 0,
                   !.events = Append(@, IF retry THEN RateLimitEvent(total, r)
                                        ELSE ErrorChunk),
                   !.response_buffer = IF retry THEN @ ELSE Append(@, ErrorChunk)]
    /\ UNCHANGED <<documents, pc, file, taskVars, inflight, provider, faults, indexed,
                   indexVars, hist, chat, probe, chroma, bundle>>

\* asyncio.sleep(total_wait) is over: retry_count += 1; continue
StreamWake ==
    /\ stream.pc = "sleep"
    /\ LoopFree
    /\ stream' = [stream EXCEPT
                    !.pc = "gen", !.retry_count = @ + 1, !.chunks = 0,
                    !.total_wait = 0,
                    !.prev_wait = UnhintedWait(stream.last_error, stream.total_wait)]
    /\ UNCHANGED <<documents, pc, file, taskVars, inflight, provider, faults, indexed,
                   indexVars, hist, chat, probe, chroma, bundle>>

\* the finally clause (lines 166-184): the buffered response is saved unless
\* it starts with the error tag, then the end event
StreamFinally ==
    /\ stream.pc = "finally"
    /\ LoopFree
    /\ stream' = [stream EXCEPT
                    !.pc = "ended",
                    !.messages = IF /\ stream.response_buffer # <<>>
                                    /\ Head(stream.response_buffer) # ErrorChunk
                                 THEN Append(@, "assistant") ELSE @,
                    !.events = Append(@, EndEvent)]
    /\ UNCHANGED <<documents, pc, file, taskVars, inflight, provider, faults, indexed,
                   indexVars, hist, chat, probe, chroma, bundle>>

StreamStep ==
    StreamBegin \/ StreamChunk \/ StreamDone \/ StreamFail \/ StreamWake \/ StreamFinally

----------------------------------------------------------------------------
(* The classifiers of utils/rate_limit.py on error texts: an error text is a *)
(* sequence of phrases (str(error) is the phrases joined by one space), an   *)
(* error is a chain of exceptions, each with its text and the link to the    *)
(* next: __cause__, __context__, or the next as its only argument            *)

Vocabulary == {"429", "resource exhausted", "quota", "too many requests"}

RetryIn == "please retry in 21.13s"
RetryDelay == "retry_delay { seconds: 23 }"
RetryInLong == "please retry in 7200s"
RetryInShort == "please retry in 0.1s"
Took == "took 5s"
Service == "service unavailable"

Hints == {RetryIn, RetryDelay, RetryInLong, RetryInShort, Took}

Phrases == Vocabulary \cup Hints \cup {Service}

\* the number a phrase carries, in milliseconds
Millis(ph) ==
    CASE ph = RetryIn -> 21130
      [] ph = RetryDelay -> 23000
      [] ph = RetryInLong -> 7200000
      [] ph = RetryInShort -> 100
      [] ph = Took -> 5000
      [] ph = "429" -> 429000
      [] OTHER -> 0

\* the match of pattern p of `patterns` (1..10; 0 is the retry_delay search of
\* line 64) that starts in phrase k of text t, as milliseconds, 0 for no match:
\*   1, 2   "please retry in <n>s", "retry in <n>s"
\*   3..7   "... <n> seconds ...": no phrase has the word
\*   8      <n>, spaces, "s" not before "econds", spaces, one more character
\*          that is no digit: a number with "s" that does not end the text, or
\*          a number before a word in "s"
\*   9, 10  "retry_delay { seconds: <n>", "seconds: <n>"
PhraseMatch(p, t, k) ==
    CASE p \in {1, 2} /\ t[k] \in {RetryIn, RetryInLong, RetryInShort} -> Millis(t[k])
      [] p = 8 /\ k < Len(t) /\ t[k] \in {RetryIn, RetryInLong, RetryInShort, Took}
            -> Millis(t[k])
      [] p = 8 /\ k < Len(t) /\ t[k] = "429" /\ t[k + 1] = Service -> Millis(t[k])
      [] p \in {0, 9, 10} /\ t[k] = RetryDelay -> Millis(t[k])
      [] OTHER -> 0

\* re.search(pattern, error_str): the leftmost match only
RECURSIVE SearchFrom(_, _, _)
SearchFrom(p, t, k) ==
    IF k > Len(t) THEN 0
    ELSE IF PhraseMatch(p, t, k) # 0 THEN PhraseMatch(p, t, k)
    ELSE SearchFrom(p, t, k + 1)

Search(p, t) == SearchFrom(p, t, 1)

\* 0.1 <= wait_time <= 3600
Reasonable(w) == 100 <= w /\ w <= 3600000

\* the loop over `patterns` (lines 75-86) from pattern p on
RECURSIVE PatternsFrom(_, _)
PatternsFrom(p, t) ==
    IF p > 10 THEN 0
    ELSE IF Reasonable(Search(p, t)) THEN Search(p, t)
    ELSE PatternsFrom(p + 1, t)

\* for comparison: every pattern before the retry_delay search
ExtractPatternsFirst(t) ==
    IF PatternsFrom(1, t) # 0 THEN PatternsFrom(1, t)
    ELSE IF Reasonable(Search(0, t)) THEN Search(0, t) ELSE 0

\* the body of the loop over errors_to_check (lines 60-86) for one text
ExtractFromText(t) ==
    IF Reasonable(Search(0, t)) THEN Search(0, t) ELSE PatternsFrom(1, t)

\* str(error) of element k of a chain: an exception made of another one alone
\* prints as that one
RECURSIVE Str(_, _)
Str(err, k) ==
    IF k > Len(err) THEN <<>>
    ELSE IF err[k].link = "args" THEN Str(err, k + 1)
    ELSE err[k].text

\* errors_to_check of extract_wait_seconds_from_error (lines 27-41): the error,
\* its __cause__, its __context__, its arguments that are exceptions
ErrorsToCheck(err) ==
    <<Str(err, 1)>> \o (IF Len(err) >= 2 THEN <<Str(err, 2)>> ELSE <<>>)

RECURSIVE FirstExtracted(_)
FirstExtracted(texts) ==
    IF texts = <<>> THEN 0
    ELSE IF ExtractFromText(Head(texts)) # 0 THEN ExtractFromText(Head(texts))
    ELSE FirstExtracted(Tail(texts))

\* extract_wait_seconds_from_error: milliseconds, 0 for None (the errors have
\* no retry_after and no details attribute)
extract_wait_seconds_from_error(err) == FirstExtracted(ErrorsToCheck(err))

\* all_text of is_rate_limit_error (lines 125-142): the messages of the error,
\* of its __cause__ and of its __context__
AllText(err) ==
    Str(err, 1) \o (IF Len(err) >= 2 /\ err[1].link \in {"cause", "context"}
                    THEN Str(err, 2) ELSE <<>>)

\* the indicators and quota_patterns (lines 150-190) that a phrase can match:
\* of the ten, only '429' occurs in a phrase (the others need "rate_limit",
\* "resource_exhausted", "quota_exceeded", "too_many_requests", or the words
\* "exceeded" or "limit"); the exceptions are plain ones, without status_code
\* or code and not of a type named after the rate limit
Indicated(ph) == ph = "429"

is_rate_limit_error(err) == \E k \in 1..Len(AllText(err)) : Indicated(AllText(err)[k])

NoProbe == [pc |-> "none", error |-> <<>>, is_rate |-> FALSE, wait |-> 0]

\* one error is handed to both classifiers, as the except clauses do
Classify ==
    /\ probe.pc = "new"
    /\ probe' = [probe EXCEPT !.pc = "classified",
                              !.is_rate = is_rate_limit_error(probe.error),
                              !.wait = extract_wait_seconds_from_error(probe.error)]
    /\ UNCHANGED <<documents, pc, file, taskVars, inflight, provider, faults, indexed,
                   indexVars, hist, chat, stream, chroma, bundle>>

----------------------------------------------------------------------------
(* Initial states and specifications *)

SeqsUpTo(S, n) == UNION {[1..k -> S] : k \in 0..n}

ElementClasses == {"empty", "short", "long"}

\* the parents the partitioner can extract from an uploaded file
Files(maxImages, maxTexts) ==
    { [corrupt |-> c, images |-> i, texts |-> t, tables |-> tb] :
        c \in BOOLEAN,
        i \in SeqsUpTo({"b64", "nob64"}, maxImages),
        t \in SeqsUpTo(ElementClasses, maxTexts),
        tb \in {<<>>, <<"long">>} }

\* the providers of the runs: one that always answers, and one for each way
\* a call can fail or fall short
Profiles ==
    { {Ok("long")},
      {Ok("long"), Fail(ErrApiKey)},
      {Ok("long"), Fail(ErrOther)},
      {Ok("long"), Fail(ErrRateHint), Fail(ErrRateNoHint)},
      {Ok("long"), Fail(ErrRateTyped)},
      {Ok("empty"), Ok("tiny"), Ok("mid")} }

\* the providers of the runs with store failures and removal
LifecycleProfiles ==
    { {Ok("long"), Fail(ErrApiKey)},
      {Ok("long"), Fail(ErrRateHint)} }

\* the providers of a chat request: an answer, or one kind of error
ChatProfiles == {{Ok("long")}} \cup {{Ok("long"), Fail(e)} : e \in Errors}

\* the state after construction: no upload yet; `active` are the documents
\* that will be uploaded, each with a file of `files`, a provider answering
\* within one of `providers` and one of `budgets` store failures ahead
InitWith(active, files, providers, budgets, chatProviders, streamProviders, stores, probes) ==
    /\ documents = [d \in Docs |-> NoDoc]
    /\ pc = [d \in Docs |-> IF d \in active THEN "none" ELSE "unused"]
    /\ file \in [Docs -> files \cup {NoParents}]
    /\ \A d \in Docs : d \notin active => file[d] = NoParents
    /\ \A d \in active : file[d] \in files
    /\ parents = [d \in Docs |-> NoParents]
    /\ idx = [d \in Docs |-> 0]
    /\ attempt = [d \in Docs |-> 0]
    /\ last_error = [d \in Docs |-> NoError]
    /\ total_wait = [d \in Docs |-> 0]
    /\ summary = [d \in Docs |-> ""]
    /\ image_summaries = [d \in Docs |-> <<>>]
    /\ text_table_summaries = [d \in Docs |-> <<>>]
    /\ inflight = {}
    /\ provider \in [Docs -> providers \cup {{}}]
    /\ \A d \in Docs : d \notin active => provider[d] = {}
    /\ \A d \in active : provider[d] \in providers
    /\ faults \in [Docs -> budgets \cup {0}]
    /\ \A d \in Docs : d \notin active => faults[d] = 0
    /\ \A d \in active : faults[d] \in budgets
    /\ indexed = {}
    /\ \E st \in stores :
        /\ uuids = st.uuids
        /\ parent_index = st.parent_index
        /\ vectors = st.vectors
        /\ chroma = st.chroma
    /\ bundle = NoBundle
    /\ \E sp \in streamProviders : stream = [IdleStream EXCEPT !.provider = sp]
    /\ probe \in probes
    /\ hist = [d \in Docs |-> NoHist]
    /\ \E cp \in chatProviders : chat = [IdleChat EXCEPT !.provider = cp]

InitOf(active, files, providers, budgets, chatProviders) ==
    InitWith(active, files, providers, budgets, chatProviders, {{}}, {EmptyStore}, {NoProbe})

\* Life cycle of one document: one upload, store failures and removal at any
\* time
Init == InitOf({"d1"}, Files(MaxImages, MaxTexts), LifecycleProfiles, {MaxFaults}, {{}})

Next == \E d \in {"d1"} : Upload(d) \/ Task(d) \/ RemoveDocument(d)

Spec == Init /\ [][Next]_vars

\* Items and retries: one upload with any provider and every store operation
\* returning, or one chat request, or one streaming chat request
InitItems ==
    \/ InitOf({"d1"}, Files(MaxImages, MaxTexts), Profiles, {0}, {{}})
    \/ InitOf({}, {NoParents}, {{}}, {0}, ChatProfiles)
    \/ InitWith({}, {NoParents}, {{}}, {0}, {{}}, ChatProfiles, {EmptyStore}, {NoProbe})

NextItems ==
    \/ \E d \in {"d1"} :
          \/ Upload(d) \/ Stages(d) \/ SummaryFailed(d) \/ OuterExcept(d)
          \/ ImageBatch(d) \/ ImgSleep(d)
          \/ TextBatch(d) \/ TxtSleep(d)
    \/ ChatStep
    \/ StreamStep

SpecItems == InitItems /\ [][NextItems]_vars

\* the files of the circuit-breaker runs: up to MaxBreakerItems elements of 20
\* characters or more, one of them possibly an image
BreakerFiles ==
    { [corrupt |-> FALSE, images |-> [i \in 1..k |-> "b64"],
       texts |-> [i \in 1..n |-> "long"], tables |-> <<>>] :
        k \in 0..1, n \in 0..MaxBreakerItems }

\* Circuit breaker: one upload of many elements, a provider whose every call
\* answers or fails with a credential error, every store operation returning
InitBreaker ==
    /\ InitOf({"d1"}, BreakerFiles, {{Ok("long"), Fail(ErrApiKey)}}, {0}, {{}})
    /\ 0 < Len(file["d1"].images) + Len(file["d1"].texts)
    /\ Len(file["d1"].images) + Len(file["d1"].texts) <= MaxBreakerItems

NextBreaker ==
    \E d \in {"d1"} :
        Upload(d) \/ Stages(d) \/ SummaryFailed(d) \/ ImageBatch(d) \/ TextBatch(d)

SpecBreaker == InitBreaker /\ [][NextBreaker]_vars

\* the file of the concurrent runs: two images and two text elements
ConcurrentFiles ==
    { [corrupt |-> FALSE, images |-> <<"b64", "b64">>,
       texts |-> <<"long", "long">>, tables |-> <<>>] }

\* Concurrent uploads: d1 and d2 are processed at once, each by its own task,
\* with a provider that answers or is rate-limited
InitConcurrent ==
    InitOf(Docs, ConcurrentFiles, {{Ok("long"), Fail(ErrRateHint)}}, {0}, {{}})

NextConcurrent ==
    \E d \in Docs :
        \/ Upload(d) \/ Stages(d)
        \/ ImageBatch(d) \/ ImgSleep(d)
        \/ TextBatch(d) \/ TxtSleep(d)

SpecConcurrent == InitConcurrent /\ [][NextConcurrent]_vars

\* the file of the runs with requests: one text element
LoopFiles == { [corrupt |-> FALSE, images |-> <<>>, texts |-> <<"long">>, tables |-> <<>>] }

\* the provider of the runs with requests: it answers or is rate-limited
LoopProfiles == {{Ok("long"), Fail(ErrRateNoHint)}}

\* Two at once, of one upload, one chat request and one streaming chat request
InitLoop ==
    \/ InitWith({}, {NoParents}, {{}}, {0}, LoopProfiles, LoopProfiles, {EmptyStore}, {NoProbe})
    \/ InitWith({"d1"}, LoopFiles, LoopProfiles, {0}, LoopProfiles, {{}}, {EmptyStore}, {NoProbe})
    \/ InitWith({"d1"}, LoopFiles, LoopProfiles, {0}, {{}}, LoopProfiles, {EmptyStore}, {NoProbe})

NextLoop ==
    \/ \E d \in {"d1"} : Upload(d) \/ Stages(d) \/ TextBatch(d) \/ TxtSleep(d)
    \/ ChatStep
    \/ StreamStep

SpecLoop == InitLoop /\ [][NextLoop]_vars

\* the errors handed to the classifiers: one exception with a text of up to
\* MaxPhrases phrases, or a chain of up to MaxLinks links whose last exception
\* has the text and the others a text of their own (none when made of the next
\* exception alone)
ChainTexts == {<<"429">>, <<RetryIn>>, <<RetryDelay>>, <<"429", RetryIn>>}

Linked(kind) == [text |-> IF kind = "args" THEN <<>> ELSE <<Service>>, link |-> kind]

Last(t) == [text |-> t, link |-> "none"]

Chains ==
    { [k \in 1..Len(ks) |-> Linked(ks[k])] \o <<Last(t)>> :
        ks \in SeqsUpTo({"cause", "context", "args"}, MaxLinks), t \in ChainTexts }

Probes ==
    { [NoProbe EXCEPT !.pc = "new", !.error = err] :
        err \in {<<Last(t)>> : t \in SeqsUpTo(Phrases, MaxPhrases)} \cup Chains }

\* Classification: one error, classified once
InitClassify == InitWith({}, {NoParents}, {{}}, {0}, {{}}, {{}}, {EmptyStore}, Probes)

NextClassify == Classify

SpecClassify == InitClassify /\ [][NextClassify]_vars

\* the files of the progress runs: up to MaxProgressImages images and
\* MaxProgressTexts text elements of 20 characters or more
ProgressFiles ==
    { [corrupt |-> FALSE, images |-> [i \in 1..k |-> "b64"],
       texts |-> [i \in 1..n |-> "long"], tables |-> <<>>] :
        k \in 0..MaxProgressImages, n \in 0..MaxProgressTexts }

\* Progress of the batches: one upload of many elements, a provider whose
\* every call answers or whose every call fails, every store operation
\* returning
InitProgress ==
    /\ InitOf({"d1"}, ProgressFiles, {{Ok("long")}, {Fail(ErrOther)}}, {0}, {{}})
    /\ 0 < Len(file["d1"].images) + Len(file["d1"].texts)

NextProgress ==
    \E d \in {"d1"} :
        Upload(d) \/ Stages(d) \/ SummaryFailed(d) \/ ImageBatch(d) \/ TextBatch(d)

SpecProgress == InitProgress /\ [][NextProgress]_vars

\* Indexing into a parent map that already has MaxPrior entries: one upload,
\* store failures and removal at any time
InitIndex ==
    InitWith({"d1"}, Files(MaxImages, MaxTexts), LifecycleProfiles, {MaxFaults},
             {{}}, {{}}, {PriorStore([NoPrior EXCEPT !["d1"] = MaxPrior], 0)}, {NoProbe})

SpecIndex == InitIndex /\ [][Next]_vars

\* the files of the alignment runs: up to MaxAlignImages images, each with or
\* without bytes, and at most one text element
AlignFiles ==
    { [corrupt |-> FALSE, images |-> i, texts |-> t, tables |-> <<>>] :
        i \in SeqsUpTo({"b64", "nob64"}, MaxAlignImages),
        t \in {<<>>, <<"long">>} }

\* Alignment of parents and summaries: one upload, a provider whose every
\* call answers, every store operation returning
InitAlign == InitOf({"d1"}, AlignFiles, {{Ok("long")}}, {0}, {{}})

NextAlign ==
    \E d \in {"d1"} :
        \/ Upload(d) \/ Stages(d)
        \/ ImgItem(d) \/ ImgCall(d) \/ ImgReply(d) \/ ImgStore(d)
        \/ TxtItem(d) \/ TxtCall(d) \/ TxtReply(d) \/ TxtStore(d)

SpecAlign == InitAlign /\ [][NextAlign]_vars

\* the raw scores of the searches: distances below and above 1, distances all
\* below 0.5, scores above 2.5, scores from a negative one on, all zero, and
\* distances of which the first is negative
ScoreProfiles ==
    { [first |-> 30001, step |-> 40001], [first |-> 10001, step |-> 10001],
      [first |-> 260001, step |-> 50001], [first |-> 0 - 20001, step |-> 20001],
      [first |-> 0, step |-> 0], [first |-> 0 - 30001, step |-> 70001],
      [first |-> 250003, step |-> 0 - 80001] }

\* what a child of the collection can be: of either document, a text or an
\* image, with or without an entry in its document's parent map
ChildKinds == [doc_id : Docs, type : {"text", "image"}, mapped : BOOLEAN]

\* the collection and the parent maps holding the children `kinds`, child i
\* under parent id i
StoreOf(kinds) ==
    [uuids |-> Len(kinds),
     parent_index |->
        [d \in Docs |->
            LET ids == {i \in DOMAIN kinds : kinds[i].doc_id = d /\ kinds[i].mapped}
            IN  IF ids = {} THEN NoIndex
                ELSE SavedIndex([i \in ids |-> Parent(kinds[i].type, i, "long")])],
     vectors |-> { [doc_id |-> kinds[i].doc_id, parent_id |-> i, type |-> kinds[i].type,
                    page_content |-> "long",
                    derived_from |-> Parent(kinds[i].type, i, "long")] : i \in DOMAIN kinds },
     chroma |-> 0]

\* the children of the collection in the order of their parent ids
ById(collection) ==
    [i \in 1..Cardinality(collection) |->
        CHOOSE v \in collection :
            Cardinality({w \in collection : w.parent_id < v.parent_id}) = i - 1]

\* the document_id arguments: none, or a document
DocumentIds == {NoDocumentId} \cup Docs

\* Retrieval: one call of retrieve_with_sources on a collection of up to
\* MaxHits children of every kind; the search returns them in the order of
\* their ids, which loses nothing, the kinds being drawn in every order
InitRetrieve ==
    InitWith({}, {NoParents}, {{}}, {0}, {{}}, {{}},
             {StoreOf(kinds) : kinds \in SeqsUpTo(ChildKinds, MaxHits)}, {NoProbe})

NextRetrieve ==
    \E k \in 1..MaxK, document_id \in DocumentIds, include_images \in BOOLEAN,
       profile \in ScoreProfiles :
        Retrieve(ById(vectors), k, document_id, include_images, profile)

SpecRetrieve == InitRetrieve /\ [][NextRetrieve]_vars

\* the raw scores of the searches of the store runs
StoreProfile == [first |-> 30001, step |-> 40001]

\* Two documents in the stores: d2 was indexed earlier (MaxPrior parents), d1
\* is uploaded, searched and removed at any time, with MaxStoreFaults failures
\* of the vector store and the index files to come
InitStore ==
    InitWith({"d1"}, LoopFiles, {{Ok("long")}}, {0}, {{}}, {{}},
             {PriorStore([NoPrior EXCEPT !["d2"] = MaxPrior], MaxStoreFaults)}, {NoProbe})

NextStore ==
    \E d \in {"d1"} :
        \/ Upload(d) \/ Stages(d)
        \/ TxtItem(d) \/ TxtCall(d) \/ TxtReply(d) \/ TxtStore(d)
        \/ RemoveDocument(d)
        \/ \E ranking \in Rankings(vectors), k \in 1..MaxK :
              Retrieve(ranking, k, d, TRUE, StoreProfile)

SpecStore == InitStore /\ [][NextStore]_vars

\* a document with one text, one table and one image
OneOfEach ==
    [corrupt |-> FALSE, images |-> <<"b64">>, texts |-> <<"long">>, tables |-> <<"long">>]

\* End to end: the upload of that document, every store operation returning,
\* with a provider that raises a rate-limit error with a hint on the first call
\* for the text, one without hint on the second, and answers every other call;
\* and a search at any time
InitEndToEnd ==
    InitOf({"d1"}, {OneOfEach}, {{Ok("long"), Fail(ErrRateHint), Fail(ErrRateNoHint)}},
           {0}, {{}})

\* what the provider does on the call that is returning
RateLimitedTwice(d) ==
    IF pc[d] = "txt_call" /\ idx[d] = 0 /\ attempt[d] = 0
    THEN pc'[d] = "txt_sleep" /\ last_error'[d] = ErrRateHint
    ELSE IF pc[d] = "txt_call" /\ idx[d] = 0 /\ attempt[d] = 1
    THEN pc'[d] = "txt_sleep" /\ last_error'[d] = ErrRateNoHint
    ELSE pc'[d] \in {"img_store", "txt_store"}

NextEndToEnd ==
    \E d \in {"d1"} :
        \/ Upload(d) \/ Stages(d)
        \/ ImgItem(d) \/ ImgCall(d) \/ (ImgReply(d) /\ RateLimitedTwice(d)) \/ ImgStore(d)
        \/ TxtItem(d) \/ TxtCall(d) \/ (TxtReply(d) /\ RateLimitedTwice(d)) \/ TxtStore(d)
        \/ TxtSleep(d)
        \/ \E ranking \in Rankings(vectors), k \in 1..MaxK, include_images \in BOOLEAN :
              Retrieve(ranking, k, d, include_images, StoreProfile)

SpecEndToEnd == InitEndToEnd /\ [][NextEndToEnd]_vars

----------------------------------------------------------------------------
(* Properties *)

Terminal == {"completed", "failed"}

ImageWindow(d, p) == PROGRESS_START <= p /\ p <= images_end_progress(d)
TextWindow(d, p) == images_end_progress(d) <= p /\ p <= PROGRESS_END

\* the steps of the batches that call the progress callback
ImageWrites == {"img_store", "img_cb_except"}
TextWrites == {"txt_store", "txt_cb_except", "final_cb"}

\* the step wrote the row of d: the callback returned, or the row changed
WroteProgress(d) ==
    /\ documents'[d] # NoDoc
    /\ \/ documents'[d] # documents[d]
       \/ pc'[d] \notin {"img_cb_except", "txt_cb_except", "summ_except"}

\* C1: the progress values written while the status is "processing" never
\* decrease, and a value written by the image batch lies in
\* [10, images_end_progress], one written by the text/table batch in
\* [images_end_progress, 80]
ProgressMonotoneInWindow ==
    [][\A d \in Docs :
         /\ (documents[d].status = "processing" /\ documents'[d].status = "processing")
               => documents'[d].progress >= documents[d].progress
         /\ (pc[d] \in ImageWrites /\ pc'[d] # pc[d] /\ WroteProgress(d))
               => ImageWindow(d, documents'[d].progress)
         /\ (pc[d] \in TextWrites /\ pc'[d] # pc[d] /\ WroteProgress(d))
               => TextWindow(d, documents'[d].progress)]_vars

\* C1 happens: the text/table batch of a file with images has reported a
\* value strictly inside its window
ProgressInsideTextWindow ==
    \E d \in Docs :
        /\ pc[d] = "txt_item" /\ idx[d] >= 1 /\ images_count(d) >= 1
        /\ documents[d].status = "processing"
        /\ images_end_progress(d) < documents[d].progress
        /\ documents[d].progress < PROGRESS_END

\* C2: once the status of a document is "completed" or "failed", no step
\* changes it; only removing the document removes the row
TerminalStatusKept ==
    [][\A d \in Docs :
         documents[d].status \in Terminal
            => \/ documents'[d].status = documents[d].status
               \/ documents'[d] = NoDoc]_vars

\* C3: when the background task of a document has returned and the document
\* has not been removed, its status is "completed" or "failed"
PipelineEndsTerminal ==
    \A d \in Docs :
        (pc[d] = "done" /\ documents[d] # NoDoc) => documents[d].status \in Terminal

ErroredItems(d) ==
    Cardinality({i \in 1..Len(hist[d].img_ends) : hist[d].img_ends[i] # "ok"})
    + Cardinality({i \in 1..Len(hist[d].txt_ends) : hist[d].txt_ends[i] # "ok"})

\* C5: with at least one item and every store operation returning, the
\* document ends "failed" when all items failed or the failed fraction is
\* strictly above 90%, and "completed" otherwise (exactly 90% included)
BreakerThreshold ==
    \A d \in Docs :
        (pc[d] = "done" /\ total_chunks(d) > 0) =>
            documents[d].status =
                IF \/ ErroredItems(d) = total_chunks(d)
                   \/ ErroredItems(d) * 10 > 9 * total_chunks(d)
                THEN "failed" ELSE "completed"

\* C5 happens: nine of ten items failed and the document is completed
NineOfTenFailedCompleted ==
    \E d \in Docs :
        /\ pc[d] = "done" /\ total_chunks(d) = 10 /\ ErroredItems(d) = 9
        /\ documents[d].status = "completed"

\* the text/table summaries of d are all fallbacks returned after an error
AllTextFellBack(d) ==
    /\ images_count(d) = 0 /\ text_count(d) > 0
    /\ Len(hist[d].txt_ends) = text_count(d)
    /\ \A i \in 1..text_count(d) :
         /\ hist[d].txt_ends[i] = "error"
         /\ IsFallback(text_table_summaries[d][i])

ShortSummaries == {"", "tiny", "mid", "fallback_short"}

\* the items the breaker counts, by the class of their summary
CountedFailed(d) ==
    Cardinality({i \in 1..Len(text_table_summaries[d]) :
                    text_table_summaries[d][i] \in ShortSummaries \cup {"[ERROR]"}})
    + Cardinality({i \in 1..Len(image_summaries[d]) :
                    image_summaries[d][i] \in {"", "[ERROR]"}})

CredentialErrorAborts ==
    \A d \in Docs :
        /\ ~hist[d].late_call
        /\ (hist[d].key_seen /\ pc[d] = "done") => documents[d].status = "failed"

\* where the task of d is once both batches have returned
AfterBatches ==
    {"final_cb", "breaker", "summ_except", "summarized", "persist", "persisted",
     "index", "indexed", "done"}

\* C8: an item whose call failed with an error other than a credential error
\* gets the fallback or the empty summary (text/table) or the error tag
\* (image), every item of both batches is processed, and the document is
\* marked "failed" only when the circuit breaker trips (or parsing failed)
ItemFailureTolerated ==
    \A d \in Docs :
        /\ pc[d] \in AfterBatches =>
             /\ Len(hist[d].img_ends) = images_count(d)
             /\ Len(hist[d].txt_ends) = text_count(d)
             /\ \A i \in 1..images_count(d) :
                  hist[d].img_ends[i] = "error" => image_summaries[d][i] = "[ERROR]"
             /\ \A i \in 1..text_count(d) :
                  hist[d].txt_ends[i] = "error"
                     => text_table_summaries[d][i]
                           \in {Fallback(text_and_tables(d)[i]), ""}
        /\ documents[d].status = "failed" =>
             \/ hist[d].reason = "parse"
             \/ /\ hist[d].reason = "breaker"
                /\ BreakerTrips(text_table_summaries[d], image_summaries[d])

\* C8 happens: the first text/table item failed with another error, the
\* second was summarized, and the document is completed
LaterItemProcessed ==
    \E d \in Docs :
        /\ pc[d] = "done" /\ documents[d].status = "completed"
        /\ hist[d].txt_ends = <<"error", "ok">>
        /\ text_table_summaries[d][1] = "fallback_long"

CallsOf(d) == {c \in inflight : c.doc = d}

\* C9: a document has at most one provider call in flight; the call of image
\* i is in flight only when images 0..i-1 are done and no text/table element
\* has started, the call of text/table element i only when every image and
\* elements 0..i-1 are done; no call is in flight while the task sleeps
SerializedCalls ==
    \A d \in Docs :
        /\ Cardinality(CallsOf(d)) <= 1
        /\ pc[d] \in {"img_sleep", "txt_sleep"} => CallsOf(d) = {}
        /\ \A c \in CallsOf(d) :
             /\ c.batch = "image" =>
                  /\ Len(hist[d].img_ends) = c.item
                  /\ Len(hist[d].txt_ends) = 0
             /\ c.batch = "text" =>
                  /\ Len(hist[d].img_ends) = images_count(d)
                  /\ Len(hist[d].txt_ends) = c.item

\* C9 happens: calls of the two documents are in flight at once, one of the
\* text/table batch and one of the image batch
CallsOfTwoDocuments ==
    \E c1, c2 \in inflight :
        /\ c1.doc = "d1" /\ c2.doc = "d2"
        /\ c1.batch = "text" /\ c1.item = 1
        /\ c2.batch = "image" /\ c2.item = 1

\* C10: an error that is not a rate-limit error is never slept on or retried:
\* the retry loop and the wrapper leave with that very error, after one call
\* more than they slept and with no wait pending
NoRetryOfOtherErrors ==
    /\ \A d \in Docs :
         /\ pc[d] \in {"img_sleep", "txt_sleep"} => IsRateLimitError(hist[d].raised)
         /\ (pc[d] \in {"img_except", "txt_except"} /\ ~IsRateLimitError(hist[d].raised))
               => /\ last_error[d] = hist[d].raised
                  /\ hist[d].ncalls = hist[d].nsleeps + 1
                  /\ total_wait[d] = 0
    /\ chat.pc = "sleep" => IsRateLimitError(chat.raised)
    /\ (chat.pc = "raised" /\ ~IsRateLimitError(chat.raised))
          => /\ chat.last_error = chat.raised
             /\ chat.ncalls = chat.nsleeps + 1

\* C10 happens: the chat wrapper has left with a credential error after one
\* call and no sleep
ChatRaisedAfterOneCall ==
    /\ chat.pc = "raised" /\ chat.raised = ErrApiKey
    /\ chat.ncalls = 1 /\ chat.nsleeps = 0

\* C11: when every attempt of a provider call failed with a rate-limit error,
\* the retry loop has made max_retries + 1 calls by the time it re-raises the
\* last error, in the summarizer loops as in the wrapper of the chat call
AllAttemptsBeforeReraise ==
    /\ \A d \in Docs :
         (pc[d] \in {"img_except", "txt_except"} /\ IsRateLimitError(last_error[d]))
            => hist[d].ncalls = SummaryMaxRetries + 1
    /\ (chat.pc = "raised" /\ IsRateLimitError(chat.raised))
          => chat.ncalls = ChatMaxRetries + 1

\* the base wait of the claims: the hint if the error has one, else
\* default_wait * (num / den) ^ attempt
ClaimedBase(e, default, num, den, a) ==
    IF e.hint THEN HintMs ELSE (default * num^a) \div den^a

\* total is base plus between 10% and 20% of base
JitterInRange(total, base) == 110 * base <= 100 * total /\ 100 * total <= 120 * base

\* C12: every wait slept after a rate-limit error is the base wait plus a
\* jitter of 10% to 20% of it, in the summarizer loops, in the wrapper of the
\* chat call and in the streaming chat
WaitIsBasePlusJitter ==
    /\ \A d \in Docs :
         pc[d] \in {"img_sleep", "txt_sleep"}
            => JitterInRange(total_wait[d],
                             ClaimedBase(last_error[d], SummaryBackoffMs, 2, 1, attempt[d]))
    /\ chat.pc = "sleep"
          => JitterInRange(chat.wait_time,
                           ClaimedBase(chat.last_error, ChatDefaultWaitMs, 3, 2, chat.attempt))
    /\ stream.pc = "sleep"
          => JitterInRange(stream.total_wait,
                           ClaimedBase(stream.last_error, StreamDefaultWaitMs, 3, 2,
                                       stream.retry_count))

\* C13: a wait computed for a rate-limit error without hint is longer than the
\* wait slept just before for such an error in the same retry loop, whatever
\* the two jitters
BackoffStrictlyIncreases ==
    /\ \A d \in Docs :
         (pc[d] \in {"img_sleep", "txt_sleep"} /\ ~last_error[d].hint
            /\ hist[d].prev_wait > 0)
            => total_wait[d] > hist[d].prev_wait
    /\ (chat.pc = "sleep" /\ ~chat.last_error.hint /\ chat.prev_wait > 0)
          => chat.wait_time > chat.prev_wait
    /\ (stream.pc = "sleep" /\ ~stream.last_error.hint /\ stream.prev_wait > 0)
          => stream.total_wait > stream.prev_wait

\* C13 happens: the text summarizer is about to sleep its second wait without
\* hint, the first with the largest jitter and the second with the smallest
SecondWaitWithoutHint ==
    \E d \in Docs :
        /\ pc[d] = "txt_sleep" /\ ~last_error[d].hint /\ attempt[d] = 1
        /\ hist[d].prev_wait = (SummaryBackoffMs * 120) \div 100
        /\ total_wait[d] = (2 * SummaryBackoffMs * 110) \div 100

\* the text of the error the classifiers were given, when it is one exception
ProbeText == probe.error[1].text

Has(t, ph) == \E k \in 1..Len(t) : t[k] = ph

\* the leftmost phrase of t that is in S, "" if there is none
RECURSIVE Leftmost(_, _)
Leftmost(S, t) ==
    IF t = <<>> THEN ""
    ELSE IF Head(t) \in S THEN Head(t)
    ELSE Leftmost(S, Tail(t))

ClassifiedOne == probe.pc = "classified" /\ Len(probe.error) = 1

\* C14: an error whose text has a word of the rate-limit vocabulary ("429",
\* "resource exhausted", "quota", "too many requests") and no retry hint is
\* classified as rate-limited, and no wait is extracted from it
VocabularyMeansRateLimited ==
    (/\ ClassifiedOne
     /\ \E ph \in Vocabulary : Has(ProbeText, ph)
     /\ \A ph \in Hints : ~Has(ProbeText, ph))
        => probe.is_rate /\ probe.wait = 0

RetryInForms == {RetryIn, RetryInLong, RetryInShort}

Innermost == <<probe.error[Len(probe.error)]>>

\* C16: when the vocabulary or the hint is only in an exception reached through
\* cause or context links, or through exceptions made of another exception,
\* the outer error is classified and its wait extracted as for that exception
ChainWalkedToTheEnd ==
    (probe.pc = "classified" /\ Len(probe.error) >= 2)
        => /\ is_rate_limit_error(Innermost) => probe.is_rate
           /\ probe.wait = extract_wait_seconds_from_error(Innermost)

\* a request that has begun, or can begin, and has a step left to take
ChatPending ==
    \/ chat.pc \in {"try", "call", "sleep", "answered"}
    \/ chat.pc = "idle" /\ chat.provider # {}

StreamPending ==
    \/ stream.pc \in {"gen", "sleep", "finally"}
    \/ stream.pc = "idle" /\ stream.provider # {}

\* what can go on beside the chat request, the streaming request or the
\* pipeline that is waiting (`but` names the one that waits)
OthersCanStep(but) ==
    /\ (but # "chat" /\ ChatPending) => ENABLED ChatStep
    /\ (but # "stream" /\ StreamPending) => ENABLED StreamStep
    /\ \A d \in Docs :
         /\ pc[d] = "none" => ENABLED Upload(d)
         /\ (but # d /\ pc[d] \in {"txt_try", "txt_call", "txt_sleep"})
               => ENABLED (TextBatch(d) \/ TxtSleep(d))

\* C17: while a chat request, a streaming chat request or a pipeline sleeps
\* before a retry, every other request and pipeline with a step left can take it
SleepSuspendsOnlySleeper ==
    /\ chat.pc = "sleep" => OthersCanStep("chat")
    /\ stream.pc = "sleep" => OthersCanStep("stream")
    /\ \A d \in Docs : pc[d] = "txt_sleep" => OthersCanStep(d)

\* what a text/table element can come back as: nothing for an empty element,
\* else a reply of 10 characters or more, its own fallback, or nothing
ResultsOfElement(el) ==
    IF el = "empty" THEN {""} ELSE {"mid", "long", Fallback(el), ""}

\* what an image can come back as
ResultsOfImage == {"", "tiny", "mid", "long", "[ERROR]"}

\* C18: a batch returns one result for each of its items, result i being one
\* that item i can have, whatever succeeded, fell back or failed; a batch
\* without items returns the empty list
BatchResultsMatchItems ==
    \A d \in Docs :
        pc[d] \in AfterBatches =>
            /\ Len(image_summaries[d]) = images_count(d)
            /\ Len(text_table_summaries[d]) = text_count(d)
            /\ \A i \in 1..images_count(d) : image_summaries[d][i] \in ResultsOfImage
            /\ \A i \in 1..text_count(d) :
                 text_table_summaries[d][i] \in ResultsOfElement(text_and_tables(d)[i])

\* C18 happens: a batch of a short and a long element is over, the first ended
\* in its fallback and the second in a summary
MixedBatchReturned ==
    \E d \in Docs :
        /\ pc[d] \in AfterBatches
        /\ text_and_tables(d) = <<"short", "long">>
        /\ text_table_summaries[d] = <<"fallback_short", "long">>

\* the value of the claim for item i (0-based) of n: the floor of
\* start + (i + 1) / n * (end - start), at most end
ClaimedProgress(start, end, n, i) == Min(start + ((i + 1) * (end - start)) \div n, end)

ImageSteps == {"img_item", "img_try", "img_call", "img_sleep", "img_except", "img_store"}
TextSteps == {"txt_item", "txt_try", "txt_call", "txt_sleep", "txt_except", "txt_store"}

\* C19: the progress written after item i of a batch of N is
\* min(floor(start + (i + 1) / N * (end - start)), end), and after the last
\* item it is the end of the batch's window
BatchProgressIsProportional ==
    \A d \in Docs :
        /\ (pc[d] \in ImageSteps /\ idx[d] >= 1)
              => documents[d].progress =
                   ClaimedProgress(PROGRESS_START, images_end_progress(d),
                                   images_count(d), idx[d] - 1)
        /\ (pc[d] \in TextSteps /\ idx[d] = 0 /\ images_count(d) > 0)
              => documents[d].progress = images_end_progress(d)
        /\ (pc[d] \in TextSteps /\ idx[d] >= 1)
              => documents[d].progress =
                   ClaimedProgress(images_end_progress(d), PROGRESS_END,
                                   text_count(d), idx[d] - 1)
        /\ (pc[d] = "final_cb" /\ text_count(d) > 0)
              => documents[d].progress = PROGRESS_END

\* C20: an indexing call that returns leaves every entry of the document's
\* saved parent map in place, with the parent it had
IndexMergesParents ==
    [][\A d \in Docs :
          (pc[d] = "index" /\ pc'[d] = "indexed")
             => \A id \in DOMAIN parent_index[d].map :
                   /\ id \in DOMAIN parent_index'[d].map
                   /\ parent_index'[d].map[id] = parent_index[d].map[id]]_vars

\* C20 happens: the call has returned, and the map has the entries it had
\* before and new ones
PriorParentsKept ==
    \E d \in Docs :
        /\ pc[d] = "indexed"
        /\ \A id \in 1..MaxPrior :
             /\ id \in DOMAIN LoadParentsIndex(d)
             /\ LoadParentsIndex(d)[id] = PriorParents(MaxPrior)[id]
        /\ \E id \in DOMAIN LoadParentsIndex(d) : id > MaxPrior

ChildSummaryOfItsParent ==
    \A v \in vectors :
        v.parent_id \in DOMAIN LoadParentsIndex(v.doc_id)
           => v.derived_from = Resolve(v.doc_id, v.parent_id)

\* positions of the hits of the call that pass its tests
Survivors ==
    {i \in DOMAIN bundle.hits :
        Survives(bundle.hits[i].child, bundle.document_id, bundle.include_images)}

\* C27: every source returned is of the document asked for when one is given,
\* is no image when images are not wanted, and carries the parent its
\* document's parent map holds under its parent_id; 'parents' holds, in the
\* order of the search, the parents of the hits the sources came from
ResultsPassFilters ==
    bundle.called =>
        /\ \A n \in DOMAIN bundle.sources :
              LET src == bundle.sources[n]
              IN  /\ bundle.document_id # NoDocumentId => src.doc_id = bundle.document_id
                  /\ ~bundle.include_images => src.type # "image"
                  /\ Resolve(src.doc_id, src.parent_id) # NoParent
                  /\ src.body = Resolve(src.doc_id, src.parent_id).body
        /\ Len(bundle.parents) = Len(bundle.sources)
        /\ \A i \in DOMAIN bundle.parents :
              \E n \in DOMAIN bundle.sources :
                  /\ Cardinality({m \in DOMAIN bundle.sources :
                                    bundle.sources[m].hit < bundle.sources[n].hit}) = i - 1
                  /\ bundle.parents[i] = Resolve(bundle.sources[n].doc_id,
                                                 bundle.sources[n].parent_id)

\* C27 happens: a call for d1 without images returned a source, the search
\* having found a child of d2, an image of d1 and a child without parent
FilteredCallReturned ==
    /\ bundle.called /\ bundle.document_id = "d1" /\ ~bundle.include_images
    /\ bundle.sources # <<>>
    /\ \E i \in DOMAIN bundle.hits : bundle.hits[i].child.doc_id = "d2"
    /\ \E i \in DOMAIN bundle.hits :
          /\ bundle.hits[i].child.doc_id = "d1"
          /\ \/ bundle.hits[i].child.type = "image"
             \/ Resolve("d1", bundle.hits[i].child.parent_id) = NoParent

\* C28: at most k sources are returned, in descending order of score, no two
\* with the same parent_id, and fewer than k only when fewer than k hits pass
\* the tests
AtMostKSortedDistinct ==
    bundle.called =>
        /\ Len(bundle.sources) <= bundle.k
        /\ \A m, n \in DOMAIN bundle.sources :
              /\ m < n => bundle.sources[m].score >= bundle.sources[n].score
              /\ m # n => bundle.sources[m].parent_id # bundle.sources[n].parent_id
        /\ Len(bundle.sources) < bundle.k => Len(bundle.sources) = Cardinality(Survivors)

\* C28 happens: more hits than k passed the tests, and the sort changed the
\* order of the sources taken
CutAndReordered ==
    /\ bundle.called
    /\ Cardinality(Survivors) > bundle.k
    /\ Len(bundle.sources) = 2
    /\ bundle.sources[1].hit > bundle.sources[2].hit
    /\ bundle.sources[1].score > bundle.sources[2].score

\* C29: every score returned lies between 0 and 1, and raw_score is the raw
\* score of the hit to four decimals
ScoresInUnitRange ==
    bundle.called =>
        \A n \in DOMAIN bundle.sources :
            LET src == bundle.sources[n]
                raw == bundle.hits[src.hit].raw
            IN  /\ 0 <= src.score /\ src.score <= RoundedOne
                /\ 10 * src.raw_score - raw <= 5
                /\ raw - 10 * src.raw_score <= 5

\* C29 happens: a call whose raw scores are distances returned a source of a
\* negative raw score and a source of a raw score above 1
ExtremeScoresReturned ==
    /\ bundle.called
    /\ IsDistance(MaxScore(bundle.hits))
    /\ \E n \in DOMAIN bundle.sources : bundle.hits[bundle.sources[n].hit].raw < 0
    /\ \E n \in DOMAIN bundle.sources : bundle.hits[bundle.sources[n].hit].raw > One

\* C30: no hit that passes the tests and is left out has a higher score than
\* a source returned
TopKByScore ==
    bundle.called =>
        \A i \in Survivors :
            (\A n \in DOMAIN bundle.sources : bundle.sources[n].hit # i)
               => \A n \in DOMAIN bundle.sources :
                     Similarity(bundle.hits[i].raw, MaxScore(bundle.hits))
                        <= bundle.sources[n].score

\* the children of a document in the collection
VectorsOf(collection, d) == {v \in collection : v.doc_id = d}

\* C22: every child of a document that has its row has its parent_id in the
\* document's saved parent map
ChildrenHaveParents ==
    \A v \in vectors :
        documents[v.doc_id] # NoDoc => v.parent_id \in DOMAIN LoadParentsIndex(v.doc_id)

\* C25: once remove_document has returned for a document, the document has
\* no saved parent map and no vector
RemovedStaysRemoved ==
    \A d \in Docs :
        hist[d].removed => ~parent_index[d].exists /\ VectorsOf(vectors, d) = {}

\* C24: a call of remove_document leaves no parent map of the document and no
\* row, and no vector of the document unless the deletion in the vector
\* store failed
RemovalClearsStoresAndRow ==
    [][\A d \in Docs :
          hist'[d].removes > hist[d].removes
             => /\ documents'[d] = NoDoc
                /\ ~parent_index'[d].exists
                /\ hist'[d].removal \notin {"store_raises", "keep_vectors"}
                      => VectorsOf(vectors', d) = {}]_vars

\* C26: a step of one document's calls leaves the parent map and the vectors
\* of every other document as they were
OtherDocumentsUntouched ==
    [][\A d \in Docs :
          pc[d] = "unused"
             => /\ parent_index'[d] = parent_index[d]
                /\ VectorsOf(vectors', d) = VectorsOf(vectors, d)]_vars

\* the rate_limit events among the events sent
Notifications(events) == SelectSeq(events, LAMBDA e : e.type = "rate_limit")

\* the content chunks among chunks or events
ContentOf(chunks) == SelectSeq(chunks, LAMBDA e : e = ContentChunk)

\* C31: no call of retrieve_with_sources raises
SearchReturns == bundle.called => ~bundle.raised

\* C32: the end marker is sent once the generator is over, once, and nothing
\* is sent after it
EndMarkerOnceAndLast ==
    /\ \A i \in DOMAIN stream.events :
          stream.events[i] = EndEvent <=> (stream.pc = "ended" /\ i = Len(stream.events))
    /\ stream.pc = "ended" => stream.events # <<>>

\* C32 happens: a response with content, rate_limit events and the error chunk
\* is over
StreamEndedAfterRetriesAndError ==
    /\ stream.pc = "ended"
    /\ ContentOf(stream.events) # <<>>
    /\ Len(Notifications(stream.events)) = StreamMaxRetries
    /\ \E i \in DOMAIN stream.events : stream.events[i] = ErrorChunk

\* C33: a response that ended with the error chunk has it before the end
\* marker and has no assistant message saved
FailedStreamNotPersisted ==
    (stream.pc = "ended" /\ \E i \in DOMAIN stream.events : stream.events[i] = ErrorChunk)
       => /\ stream.events[Len(stream.events) - 1] = ErrorChunk
          /\ \A i \in DOMAIN stream.messages : stream.messages[i] # "assistant"

\* C34: a failure that is retried sends one rate_limit event, sleeps and
\* starts generation again; the events are at most max_retries, numbered 1, 2,
\* 3 and not above the max_retries they carry; the chunks sent stay in the
\* response that is saved
RetriesNotifiedAndKept ==
    [][LET before == stream.events
           after == stream'.events
           sent == Notifications(after)
       IN  /\ Len(sent) <= StreamMaxRetries
           /\ \A i \in DOMAIN sent :
                 sent[i].retry_attempt = i /\ sent[i].retry_attempt <= sent[i].max_retries
           /\ (stream.pc = "gen" /\ stream'.pc = "sleep")
                 => /\ Len(after) = Len(before) + 1
                    /\ after[Len(after)].type = "rate_limit"
                    /\ stream'.total_wait > 0
           /\ stream.pc = "sleep"
                 => stream'.pc = "gen" /\ stream'.chunks = 0 /\ after = before
           /\ Len(stream'.messages) > Len(stream.messages) /\ stream.pc = "finally"
                 => ContentOf(stream.response_buffer) = ContentOf(before)]_vars

\* C34 happens: after three retries a response made of the chunks of more
\* than one attempt was saved
RetriedStreamSaved ==
    /\ stream.pc = "ended"
    /\ Len(Notifications(stream.events)) = StreamMaxRetries
    /\ Len(ContentOf(stream.response_buffer)) >= 2
    /\ \E i \in DOMAIN stream.messages : stream.messages[i] = "assistant"

\* the children of document d in the collection whose parent has the type
ChildrenOfType(d, type) ==
    {v \in vectors : v.doc_id = d /\ v.type = type
                      /\ Resolve(d, v.parent_id).type = type}

\* C35: the document with one text, one table and one image whose text call is
\* rate-limited twice in a row, first with a hint and then without, and then
\* answered, ends "completed" with progress 100 after two waits, with the
\* summary of the text and one searchable child of type "table"; and a search
\* whose first hit is that child returns, if it returns, a result of type "table"
RateLimitedUploadCompletes ==
    /\ (pc["d1"] = "txt_store" /\ idx["d1"] = 0
          => /\ hist["d1"].ncalls = 3
             /\ hist["d1"].nsleeps = 2
             /\ last_error["d1"] = ErrRateNoHint)
    /\ pc["d1"] = "done" =>
        /\ documents["d1"] = [status |-> "completed", progress |-> 100]
        /\ hist["d1"].txt_ends = <<"ok", "ok">>
        /\ text_table_summaries["d1"][1] = SummarizeOneResult("long", "long")
        /\ Cardinality(ChildrenOfType("d1", "table")) = 1
        /\ ((bundle.called /\ ~bundle.raised /\ bundle.hits # <<>>
                /\ bundle.hits[1].child.type = "table")
              => \E i \in DOMAIN bundle.sources : bundle.sources[i].type = "table")

\* the upload is complete and a search has returned the table
TableFoundAfterRateLimits ==
    /\ pc["d1"] = "done"
    /\ documents["d1"].status = "completed"
    /\ hist["d1"].txt_ends = <<"ok", "ok">>
    /\ bundle.called
    /\ bundle.document_id = "d1"
    /\ \E i \in DOMAIN bundle.sources :
          bundle.sources[i].type = "table" /\ bundle.sources[i].doc_id = "d1"

\* C36: once index_multivector has raised for a document, the returned task
\* leaves the document's row, if it is still there, in status "failed", and the
\* row is never "completed" after the failing call
IndexFailureEndsFailed ==
    \A d \in Docs :
        (hist[d].reason = "index" /\ documents[d] # NoDoc) =>
            /\ documents[d].status # "completed"
            /\ (pc[d] = "done" => documents[d].status = "failed")

\* index_multivector raised after the children were added, and the task
\* returned with the document failed
FailedAfterIndexRaised ==
    /\ hist["d1"].reason = "index"
    /\ pc["d1"] = "done"
    /\ documents["d1"] = [status |-> "failed", progress |-> 0]
    /\ \E v \in vectors : v.doc_id = "d1"
    /\ ~parent_index["d1"].exists

\* C37: when the call that generates the answer of the non-streaming chat
\* request has failed with an error that is not a rate-limit error (credential,
\* connectivity), the request has failed: the error has left chat(), the user
\* message is the only message saved, and no assistant message is saved
\* without a reply of the provider
ChatFailureNotAnswered ==
    /\ (chat.raised # NoError /\ ~IsRateLimitError(chat.raised))
          => chat.pc = "raised" /\ chat.messages = <<"user">>
    /\ chat.pc = "raised" => chat.messages = <<"user">>
    /\ (chat.messages # <<>> /\ chat.messages[Len(chat.messages)] = "assistant")
          => chat.pc = "done" /\ chat.messages = <<"user", "assistant">>

\* the chat request has failed with a connectivity error and has saved the
\* user message alone
ChatFailedWithoutAnswer ==
    /\ chat.pc = "raised"
    /\ chat.raised = ErrOther
    /\ chat.messages = <<"user">>

\* C38: within one search the normalized scores keep the order of the raw
\* scores: when the scores are taken for distances, a result with a lower raw
\* score has no lower normalized score than one with a higher raw score; when
\* they are taken for similarities, a result with a higher raw score has no
\* lower normalized score than one with a lower raw score
NormalizationKeepsRanking ==
    bundle.called =>
        \A i, j \in DOMAIN bundle.sources :
            LET better == bundle.sources[i]
                worse == bundle.sources[j]
                nearer == IF IsDistance(MaxScore(bundle.hits))
                          THEN bundle.hits[better.hit].raw < bundle.hits[worse.hit].raw
                          ELSE bundle.hits[better.hit].raw > bundle.hits[worse.hit].raw
            IN  nearer => better.score >= worse.score

\* the last entry of a sequence of ends is "ok": the call for the item that is
\* being stored returned a summary
LastEndOk(ends) == ends # <<>> /\ ends[Len(ends)] = "ok"

\* C39: when the call for an item of a batch has returned a summary, the batch
\* holds that summary for the item after the step that stores it and after the
\* step that handles a failure of the progress callback, and the batch is not
\* left before its remaining items
BatchKeepsProducedSummary ==
    [][\A d \in Docs :
          /\ (pc[d] \in {"txt_store", "txt_cb_except"} /\ pc'[d] # pc[d]
                /\ LastEndOk(hist[d].txt_ends))
                => /\ text_table_summaries'[d][idx[d] + 1] = summary[d]
                   /\ pc'[d] # "summ_except"
          /\ (pc[d] \in {"img_store", "img_cb_except"} /\ pc'[d] # pc[d]
                /\ LastEndOk(hist[d].img_ends))
                => /\ image_summaries'[d][idx[d] + 1] = summary[d]
                   /\ pc'[d] # "summ_except"]_vars

\* C40: a retry loop sleeps only between two attempts: when it has raised the
\* error of its last attempt, in the summarizer loops as in the wrapper of the
\* chat call, it has slept fewer times than it has called the provider
NoWaitAfterLastAttempt ==
    /\ \A d \in Docs :
         pc[d] \in {"img_except", "txt_except"} => hist[d].nsleeps < hist[d].ncalls
    /\ chat.pc = "raised" => chat.nsleeps < chat.ncalls

====
